---- MODULE Spec2Model ----
(***************************************************************************)
(* A model of the liquidation bot (beflori/a3d):                           *)
(*   - LiquidationBot: the liquidationOpportunity handler and its active   *)
(*     set, executeLiquidation, monitorTransaction, the error handler and  *)
(*     getStatus (src/src/core/LiquidationBot.js);                         *)
(*   - TransactionExecutor and NonceManager                                *)
(*     (src/src/services/TransactionExecutor.js);                          *)
(*   - EventListener: subscriptions and the reconnection state machine     *)
(*     (src/src/services/EventListener.js).                                *)
(* The program is single threaded and cooperative: an action is the code   *)
(* that runs between two suspension points (await, timer, event).          *)
(***************************************************************************)
EXTENDS Integers, FiniteSets, Sequences, TLC

VARIABLES
    \* ---- LiquidationBot ----
    activeLiquidations,  \* keys of the Map this.activeLiquidations
    isRunning,           \* this.isRunning
    \* ---- handler invocations (flows) / callers of the NonceManager ----
    pc,                  \* where each flow is suspended
    borrower,            \* event.borrower of the flow
    nonce,               \* the local `nonce` of executeLiquidation
    \* ---- NonceManager ----
    currentNonce,        \* this.currentNonce (NULL before the first refresh)
    pendingNonces,       \* this.pendingNonces
    stale,               \* Date.now() - this.lastUpdate > this.updateInterval
    \* ---- the chain ----
    chainCount,          \* what getTransactionCount(address, 'pending') answers
    \* ---- history ----
    issued,              \* how often getNextNonce has returned each value
    retired,             \* numbers removed from the lease set by confirmNonce
    lastOp,              \* the last call made on the NonceManager's interface
    \* ---- EventListener ----
    isListening,         \* this.isListening
    monitoring,          \* setupConnectionMonitoring has installed the triggers
    contracts,           \* keys of the Map this.contracts
    listeners,           \* contracts that have a liquidation listener attached
    established,         \* the subscriptions start() established
    reconnectAttempts,   \* this.reconnectAttempts
    scheduled,           \* reconnection timers set and not yet fired
    connecting,          \* reconnection attempts suspended in wsProvider._start()
    failedRun,           \* failed reconnection attempts since the last success
    fatal,               \* 'Max reconnection attempts reached' has been emitted
    stopCalls,           \* direct calls of EventListener.stop() made so far
    \* ---- OpportunityValidator ----
    walletAddress,             \* this.walletAddress
    enableWalletBalanceCheck,  \* this.enableWalletBalanceCheck
    minProfitThreshold,        \* this.minProfitThreshold
    vpc,                 \* where the running validate() is suspended
    liquidationEvent,    \* the argument of validate()
    positionData,        \* what getUserPosition() returned
    readsFailed,         \* every chain read of that position fetch failed
    healthFactor,        \* the local healthFactor of validate()
    liquidationParams,   \* what calculateLiquidationParams() returned
    balanceCheck,        \* what checkWalletTokenBalance() returned
    gasCost,             \* what estimateGasCost() returned
    result,              \* what validate() returned
    \* ---- TransactionExecutor ----
    execution,           \* the executeLiquidation() call made on its own
    \* ---- PriceOracle ----
    oracle,              \* priceCache, the clock and the getTokenPrice() call
    \* ---- OpportunityValidator.getUserPosition ----
    positions,           \* the position cache, the clock and the fetch
    \* ---- OpportunityValidator: balance checks called on their own ----
    wallet,              \* balanceCache, the clock and the check
    \* ---- GasOracle ----
    gasOracle            \* currentGasPrice, gasHistory, the timer and the call

botVars == <<activeLiquidations, isRunning>>
flowVars == <<pc, borrower, nonce>>
nonceVars == <<currentNonce, pendingNonces, stale>>
histVars == <<issued, retired, lastOp>>
listenerVars == <<isListening, monitoring, contracts, listeners, established,
                  reconnectAttempts, scheduled, connecting, failedRun, fatal,
                  stopCalls>>
configVars == <<enableWalletBalanceCheck, minProfitThreshold>>
validationVars == <<vpc, liquidationEvent, positionData, readsFailed, healthFactor,
                    liquidationParams, balanceCheck, gasCost, result>>
validatorVars == <<walletAddress, configVars, validationVars>>
serviceVars == <<execution, oracle, positions, wallet, gasOracle>>
vars == <<botVars, flowVars, nonceVars, chainCount, histVars, listenerVars,
          validatorVars, serviceVars>>

(***************************************************************************)
(* Bounds of the model                                                     *)
(***************************************************************************)
MaxFlows == 2      \* handler invocations that can be in progress together
MaxLeases == 2     \* getNextNonce is not entered with this many leases held
MaxChain == 1      \* the chain's pending transaction count stops here
MaxCallers == 2    \* getNextNonce calls that can be suspended together
MaxApiLeases == 3  \* as MaxLeases, for direct calls of the NonceManager
MaxApiChain == 2   \* as MaxChain, for direct calls of the NonceManager
MaxPending == 2    \* reconnection attempts that can be pending together
MaxContractFailures == 1  \* contracts whose subscription fails in start()
MaxStops == 2      \* direct calls of EventListener.stop()
MaxHundreds == 10  \* the largest collateral and debt value, in hundreds
MaxGasSteps == 4   \* the largest gas price, in tens of gwei
MaxNow == 3        \* the clocks of the caches stop here
MaxSamples == 17   \* the most readings the gas oracle takes in one run
Warmup == 85       \* the readings a gas oracle may have taken before
MaxFeeChanges == 1 \* how often the network's fee data change

Flows == 1..MaxFlows
Callers == 1..MaxCallers
Debtors == {"d1", "d2"}
NoBorrower == "none"

Max(a, b) == IF a >= b THEN a ELSE b
Min(a, b) == IF a <= b THEN a ELSE b

\* this.currentNonce = null: a value that is no sequence number
NULL == -1
NonceValues ==
    {NULL} \cup (0..(Max(MaxChain + MaxLeases + MaxFlows, MaxApiChain + MaxApiLeases + MaxCallers) + 1))

(***************************************************************************)
(* NonceManager                                                            *)
(***************************************************************************)
\* JavaScript's numeric coercion of a nonce value: Number(null) is 0
ToNumber(v) == IF v = NULL THEN 0 ELSE v

\* if (!this.currentNonce || Date.now() - this.lastUpdate > this.updateInterval)
\* !this.currentNonce is true of null and of 0
NeedsUpdate == currentNonce = NULL \/ currentNonce = 0 \/ stale

\* NextAvailable without the loop: the lease set is not consulted (faulty variant)
NextAvailableNoSkip(n, pending) == n

\* let nextNonce = this.currentNonce;
\* while (this.pendingNonces.has(nextNonce)) nextNonce++;
RECURSIVE NextAvailable(_, _)
NextAvailable(n, pending) ==
    IF n \in pending THEN NextAvailable(ToNumber(n) + 1, pending) ELSE n

\* updateNonce catches every error of the chain read and does not rethrow, so
\* the try block of getNextNonce never throws and its catch block (the direct
\* query of the pending count) is never entered
UpdateNonceThrows(readOk) == FALSE

\* The value getNextNonce returns after its refresh step
GetNextNonceValue(readOk) ==
    IF UpdateNonceThrows(readOk)
    THEN chainCount
    ELSE NextAvailable(currentNonce, pendingNonces)

\* The lease set getNextNonce leaves (the catch block leases nothing)
GetNextNoncePending(readOk) ==
    IF UpdateNonceThrows(readOk)
    THEN pendingNonces
    ELSE pendingNonces \cup {NextAvailable(currentNonce, pendingNonces)}

\* releaseNonce(nonce): if (nonce !== undefined) this.pendingNonces.delete(nonce)
ReleaseNonce(pending, n, given) == IF given THEN pending \ {n} ELSE pending

\* ConfirmNonce without the clean-up loop: the confirmed number alone is
\* deleted (faulty variant)
ConfirmNonceOnlyOne(pending, n) == pending \ {n}

\* confirmNonce(nonce): delete nonce, then every pendingNonce <= nonce
ConfirmNonce(pending, n) ==
    {p \in pending \ {n} : ~(ToNumber(p) <= ToNumber(n))}

Bump(v) == [issued EXCEPT ![v] = Min(@ + 1, 2)]

(***************************************************************************)
(* The chain and the clock                                                 *)
(***************************************************************************)
\* The wallet's pending transaction count grows (own or external transactions)
ChainAdvance(bound) ==
    /\ chainCount < bound
    /\ chainCount' = chainCount + 1
    /\ UNCHANGED <<botVars, flowVars, nonceVars, histVars, listenerVars, validatorVars, serviceVars>>

\* updateInterval (10 s) passes since lastUpdate
IntervalElapses ==
    /\ ~stale
    /\ stale' = TRUE
    /\ UNCHANGED <<botVars, flowVars, currentNonce, pendingNonces, chainCount,
                   histVars, listenerVars, validatorVars, serviceVars>>

\* updateNonce resumes after the chain read: on success currentNonce and
\* lastUpdate are set, on failure the error is logged and nothing changes
UpdateNonceSettle(f) ==
    /\ pc[f] = "updating"
    /\ \E readOk \in BOOLEAN :
         IF readOk
         THEN /\ currentNonce' = chainCount
              /\ stale' = FALSE
              /\ pc' = [pc EXCEPT ![f] = "updated"]
         ELSE /\ UNCHANGED <<currentNonce, stale>>
              /\ pc' = [pc EXCEPT ![f] = "updateFailed"]
    /\ UNCHANGED <<botVars, borrower, nonce, pendingNonces, chainCount,
                   histVars, listenerVars, validatorVars, serviceVars>>

(***************************************************************************)
(* LiquidationBot: the liquidationOpportunity handler                      *)
(***************************************************************************)
\* The handler has an entry in progress between marking the borrower active
\* and its finally block
InFlow(f) ==
    pc[f] \in {"validating", "building", "updating", "updated", "updateFailed",
               "signing", "broadcasting"}

\* finally { this.activeLiquidations.delete(event.borrower) }: the flow ends
EndFlow(f) ==
    /\ activeLiquidations' = activeLiquidations \ {borrower[f]}
    /\ pc' = [pc EXCEPT ![f] = "idle"]
    /\ borrower' = [borrower EXCEPT ![f] = NoBorrower]
    /\ nonce' = [nonce EXCEPT ![f] = NULL]

\* A liquidationOpportunity event for debtor d is delivered to the handler.
\* An already active borrower makes the handler return inside try, and the
\* finally block still runs: it deletes the borrower's entry.
OnOpportunity(f, d) ==
    /\ pc[f] = "idle"
    /\ IF d \in activeLiquidations
       THEN /\ activeLiquidations' = activeLiquidations \ {d}
            /\ UNCHANGED flowVars
       ELSE /\ activeLiquidations' = activeLiquidations \cup {d}
            /\ pc' = [pc EXCEPT ![f] = "validating"]
            /\ borrower' = [borrower EXCEPT ![f] = d]
            /\ UNCHANGED nonce
    /\ UNCHANGED <<isRunning, nonceVars, chainCount, histVars, listenerVars, validatorVars, serviceVars>>

\* opportunityValidator.validate(event) settles: invalid, or it throws, and the
\* flow ends; valid, and executeLiquidation starts (suspended at the gas price
\* and at buildLiquidationTransaction)
ValidateDone(f) ==
    /\ pc[f] = "validating"
    /\ \E r \in {"valid", "invalid", "throw"} :
         IF r = "valid"
         THEN /\ pc' = [pc EXCEPT ![f] = "building"]
              /\ UNCHANGED <<activeLiquidations, borrower, nonce>>
         ELSE EndFlow(f)
    /\ UNCHANGED <<isRunning, nonceVars, chainCount, histVars, listenerVars, validatorVars, serviceVars>>

\* getOptimalGasPrice / buildLiquidationTransaction settle. On failure the catch
\* block of TransactionExecutor.executeLiquidation calls releaseNonce() with no
\* argument and rethrows, and the flow ends. On success getNextNonce is entered
\* and runs to its first suspension point.
BuildDone(f) ==
    /\ pc[f] = "building"
    /\ \E ok \in BOOLEAN :
         IF ~ok
         THEN /\ EndFlow(f)
              /\ pendingNonces' = ReleaseNonce(pendingNonces, nonce[f], FALSE)
              /\ UNCHANGED <<currentNonce, stale, issued>>
         ELSE /\ Cardinality(pendingNonces) < MaxLeases
              /\ IF NeedsUpdate
                 THEN /\ pc' = [pc EXCEPT ![f] = "updating"]
                      /\ UNCHANGED <<nonce, pendingNonces, issued>>
                 ELSE /\ pc' = [pc EXCEPT ![f] = "signing"]
                      /\ nonce' = [nonce EXCEPT ![f] = GetNextNonceValue(TRUE)]
                      /\ pendingNonces' = GetNextNoncePending(TRUE)
                      /\ issued' = Bump(GetNextNonceValue(TRUE))
              /\ UNCHANGED <<activeLiquidations, borrower, currentNonce, stale>>
    /\ UNCHANGED <<isRunning, chainCount, retired, lastOp, listenerVars, validatorVars, serviceVars>>

\* getNextNonce resumes after `await this.updateNonce()` and returns
GetNextNonceResume(f) ==
    /\ pc[f] \in {"updated", "updateFailed"}
    /\ LET readOk == pc[f] = "updated" IN
         /\ nonce' = [nonce EXCEPT ![f] = GetNextNonceValue(readOk)]
         /\ pendingNonces' = GetNextNoncePending(readOk)
         /\ issued' = Bump(GetNextNonceValue(readOk))
    /\ pc' = [pc EXCEPT ![f] = "signing"]
    /\ UNCHANGED <<botVars, borrower, currentNonce, stale, chainCount,
                   retired, lastOp, listenerVars, validatorVars, serviceVars>>

\* catch (error) { this.nonceManager.releaseNonce(); ... throw error; }
\* and the handler's catch and finally
ExecutionFailed(f) ==
    /\ pendingNonces' = ReleaseNonce(pendingNonces, nonce[f], FALSE)
    /\ EndFlow(f)
    /\ UNCHANGED <<isRunning, currentNonce, stale, chainCount, histVars, listenerVars, validatorVars, serviceVars>>

\* wallet.signTransaction(transaction) settles
SignDone(f) ==
    /\ pc[f] = "signing"
    /\ \/ /\ pc' = [pc EXCEPT ![f] = "broadcasting"]
          /\ UNCHANGED <<botVars, borrower, nonce, nonceVars, chainCount,
                         histVars, listenerVars, validatorVars, serviceVars>>
       \/ ExecutionFailed(f)

\* provider.broadcastTransaction(signedTx) settles. On success the hash is
\* returned, monitorTransaction(txHash, borrower) is started (not awaited; it
\* is not given the nonce) and the handler's finally block ends the flow.
BroadcastDone(f) ==
    /\ pc[f] = "broadcasting"
    /\ \/ /\ activeLiquidations' = activeLiquidations \ {borrower[f]}
          /\ pc' = [pc EXCEPT ![f] = "monitoring"]
          /\ borrower' = [borrower EXCEPT ![f] = NoBorrower]
          /\ nonce' = [nonce EXCEPT ![f] = NULL]
          /\ UNCHANGED <<isRunning, nonceVars, chainCount, histVars, listenerVars, validatorVars, serviceVars>>
       \/ ExecutionFailed(f)

\* monitorTransaction: waitForTransaction settles (confirmed, reverted or
\* timed out); every outcome is only logged
MonitorDone(f) ==
    /\ pc[f] = "monitoring"
    /\ pc' = [pc EXCEPT ![f] = "idle"]
    /\ UNCHANGED <<botVars, borrower, nonce, nonceVars, chainCount, histVars,
                   listenerVars, validatorVars, serviceVars>>

(***************************************************************************)
(* OpportunityValidator: amounts are Big decimals; the model holds them as *)
(* integers counting thousandths, which is exact for the inputs below      *)
(***************************************************************************)
\* One unit of a Big amount in the model's integers
Scale == 1000

\* Big.times and Big.div on scaled amounts; the quotient is cut after three
\* decimals, which keeps every comparison with 1 that Big makes
Times(a, b) == (a * b) \div Scale
Div(a, b) == (a * Scale) \div b

\* this.walletAddress = null, and the address of the bot's wallet
NoWallet == "null"
SignerAddress == "wallet.address"

\* A missing debtAsset (undefined)
NoAsset == "undefined"

\* Big('999999'): the health factor of a position without debt
Sentinel == 999999 * Scale

\* Big('0.83'), Big('0.80'), Big('0.95') of the position readers
compoundLiquidationThreshold == 830
moonwellLiquidationThreshold == 800
moonwellShortfallHealthFactor == 950

\* '0.5' and Big('0.05') of calculateLiquidationParams
maxDebtShare == 500
liquidationBonus == 50

\* estimateGasCost: 300000 gas units, 1e18 wei per ETH counted in gwei per
\* thousandth, and the fallback Big('0.01')
estimatedGasUnits == 300000
GweiPerUnit == 1000000
fallbackGasCost == 10

\* Big(process.env.MIN_PROFIT_THRESHOLD || '0.01'): the default, and the
\* values the environment sets in the model
defaultMinProfitThreshold == 10
MinProfitThresholds == {defaultMinProfitThreshold, 22490}

\* Collateral and debt values in USD: 0 and the hundreds from 800 on
Amounts == {100 * k * Scale : k \in {0} \cup 8..MaxHundreds}

\* Token and ETH balances of the wallet: 0 and the fifties from 400 on
WalletBalances == {50 * k * Scale : k \in {0} \cup 8..MaxHundreds}

\* gasPrice of getFeeData() in gwei
GasPrices == {10 * k : k \in 0..MaxGasSteps}

\* healthFactor and currentLiquidationThreshold of Aave's getUserAccountData
NativeHealthFactors == {944, 1000, 1200}
LiquidationThresholds == {800, 850}

\* The events handleLiquidationEvent emits (Aave's carry debtAsset), an Aave
\* event without debtAsset, and an event without a valid borrower
LiquidationEvents ==
    {[borrowerOk |-> TRUE, protocol |-> p, debtAsset |-> NoAsset] :
        p \in {"compound-v3", "aave-v3", "moonwell"}}
    \cup {[borrowerOk |-> TRUE, protocol |-> "aave-v3", debtAsset |-> a] :
            a \in {"USDC", "WETH"}}
    \cup {[borrowerOk |-> FALSE, protocol |-> "compound-v3", debtAsset |-> NoAsset]}

NoEvent == [borrowerOk |-> FALSE, protocol |-> "none", debtAsset |-> NoAsset]

\* isPreliminaryValid(): borrower is an address and protocol is set; the
\* cache it looks into holds no entry under its key
IsPreliminaryValid(event) == event.borrowerOk /\ event.protocol # ""

\* getUserPosition() returned null
NoPosition ==
    [protocol |-> "null", collateralValue |-> 0, debtValue |-> 0,
     liquidationThreshold |-> 0, healthFactor |-> 0, debtAssets |-> <<>>]

\* getCompoundV3Position(): a debt asset is recorded with every debt found;
\* healthFactor is collateral / debt
CompoundV3Position(c, d) ==
    [protocol |-> "compound-v3", collateralValue |-> c, debtValue |-> d,
     liquidationThreshold |-> compoundLiquidationThreshold,
     healthFactor |-> IF d > 0 THEN Div(c, d) ELSE Sentinel,
     debtAssets |-> IF d > 0 THEN <<"USDC">> ELSE <<>>]

\* getAaveV3Position(): totals, threshold and health factor are the pool's
\* account data; the debt assets are those found among four common tokens
AaveV3Position(c, d, t, hf, assets) ==
    [protocol |-> "aave-v3", collateralValue |-> c, debtValue |-> d,
     liquidationThreshold |-> t, healthFactor |-> hf, debtAssets |-> assets]

\* getMoonwellPosition(): 0.95 on a shortfall, else collateral / debt
MoonwellPosition(c, d, shortfall) ==
    [protocol |-> "moonwell", collateralValue |-> c, debtValue |-> d,
     liquidationThreshold |-> moonwellLiquidationThreshold,
     healthFactor |-> IF d > 0
                      THEN IF shortfall THEN moonwellShortfallHealthFactor
                           ELSE Div(c, d)
                      ELSE Sentinel,
     debtAssets |-> IF d > 0 THEN <<"USDC">> ELSE <<>>]

\* What getUserPosition() can return for a protocol, null apart (null is all
\* it returns for a protocol it does not know)
Positions(protocol) ==
    CASE protocol = "compound-v3" ->
           {CompoundV3Position(c, d) : c \in Amounts, d \in Amounts}
      [] protocol = "aave-v3" ->
           {AaveV3Position(c, d, t, hf, assets) :
               c \in Amounts, d \in Amounts \ {0}, t \in LiquidationThresholds,
               hf \in NativeHealthFactors, assets \in {<<>>, <<"USDC">>}}
      [] protocol = "moonwell" ->
           {MoonwellPosition(c, d, s) :
               c \in Amounts, d \in Amounts, s \in BOOLEAN}
      [] OTHER -> {}

\* getUserPosition() when every chain read fails: getCompoundV3Position
\* catches the failure of each market inside its loop and returns the empty
\* totals; the Aave and Moonwell readers fail on their first read, outside
\* any inner try, and return null
PositionWithoutChain(protocol) ==
    IF protocol = "compound-v3" THEN CompoundV3Position(0, 0) ELSE NoPosition

\* Every answer of getUserPosition()
AllPositions ==
    UNION {Positions(p) : p \in {"compound-v3", "aave-v3", "moonwell"}}
        \cup {NoPosition}

\* calculateHealthFactor(): a health factor carried by the position is
\* returned as it is (NULL stands for a position without the field)
CalculateHealthFactor(position) ==
    IF position.healthFactor # NULL
    THEN position.healthFactor
    ELSE IF position.debtValue = 0
         THEN Sentinel
         ELSE Div(Times(position.collateralValue, position.liquidationThreshold),
                  position.debtValue)

\* A gate that lets a health factor of exactly 1 pass
HealthFactorAboveOne(hf) == hf > Scale

\* healthFactor.gte(1)
HealthFactorTooHigh(hf) == hf >= Scale

\* Liquidation parameters with the bonus taken on the whole debt
CalculateParamsOnWholeDebt(position) ==
    [debtValue |-> Times(position.debtValue, maxDebtShare),
     maxCollateralValue |-> Times(position.debtValue, Scale + liquidationBonus),
     liquidationBonus |-> liquidationBonus,
     debtAsset |-> IF position.debtAssets = <<>> THEN NoAsset
                   ELSE position.debtAssets[1]]

\* calculateLiquidationParams(): half of the debt, and the collateral seized
\* for it with the bonus
CalculateLiquidationParams(position) ==
    LET maxDebtToLiquidate == Times(position.debtValue, maxDebtShare)
        collateralToSeize == Times(maxDebtToLiquidate, Scale + liquidationBonus)
    IN  [debtValue |-> maxDebtToLiquidate,
         maxCollateralValue |-> collateralToSeize,
         liquidationBonus |-> liquidationBonus,
         debtAsset |-> IF position.debtAssets = <<>> THEN NoAsset
                       ELSE position.debtAssets[1]]

NoParams ==
    [debtValue |-> 0, maxCollateralValue |-> 0, liquidationBonus |-> 0,
     debtAsset |-> NoAsset]

\* An entry of balanceCache, and none
NoBalanceEntry ==
    [walletBalance |-> NULL, symbol |-> "undefined", balanceType |-> "none",
     timestamp |-> 0]
BalanceEntry(check, time) ==
    [walletBalance |-> check.walletBalance, symbol |-> check.symbol,
     balanceType |-> check.balanceType, timestamp |-> time]

\* validate() has not called checkWalletTokenBalance()
NoBalanceCheck ==
    [hasBalance |-> FALSE, error |-> FALSE, reason |-> "not called",
     walletBalance |-> NULL, balanceType |-> "none", symbol |-> "undefined",
     required |-> NULL]

\* checkWalletTokenBalance(): no wallet address; a cached balance not older
\* than balanceCacheTimeout, compared with the amount now required; a failed
\* read; the ETH balance for WETH when it suffices; else the token balance
CheckWalletTokenBalance(address, asset, amount, cached, native, token, readOk) ==
    IF address = NoWallet
    THEN [hasBalance |-> FALSE, error |-> FALSE,
          reason |-> "Wallet address not configured",
          walletBalance |-> NULL, balanceType |-> "none",
          symbol |-> "undefined", required |-> NULL]
    ELSE IF cached # NoBalanceEntry
    THEN [hasBalance |-> cached.walletBalance >= amount, error |-> FALSE,
          reason |-> "", walletBalance |-> cached.walletBalance,
          balanceType |-> cached.balanceType, symbol |-> cached.symbol,
          required |-> amount]
    ELSE IF ~readOk
    THEN [hasBalance |-> FALSE, error |-> TRUE, reason |-> "",
          walletBalance |-> NULL, balanceType |-> "none", symbol |-> asset,
          required |-> NULL]
    ELSE IF asset = "WETH" /\ native >= amount
    THEN [hasBalance |-> TRUE, error |-> FALSE, reason |-> "",
          walletBalance |-> native, balanceType |-> "native",
          symbol |-> "ETH", required |-> amount]
    ELSE [hasBalance |-> token >= amount, error |-> FALSE, reason |-> "",
          walletBalance |-> token, balanceType |-> "token", symbol |-> asset,
          required |-> amount]

\* The entries an earlier check may have left in balanceCache for an asset
CachedBalances ==
    {[walletBalance |-> b, symbol |-> a, balanceType |-> "token",
      timestamp |-> 0] : b \in WalletBalances, a \in {"USDC", "WETH"}}
    \cup {[walletBalance |-> b, symbol |-> "ETH", balanceType |-> "native",
           timestamp |-> 0] : b \in WalletBalances}
CachedFor(asset, entry) ==
    \/ entry = NoBalanceEntry
    \/ entry.symbol = asset
    \/ asset = "WETH" /\ entry.symbol = "ETH"

\* estimateGasCost(): gas units times gas price in ETH, 0.01 when the fee
\* data cannot be read
EstimateGasCost(feeOk, gwei) ==
    IF feeOk THEN (estimatedGasUnits * gwei) \div GweiPerUnit
    ELSE fallbackGasCost

\* A profit that leaves the gas cost out
GrossProfit(params, gas) == params.maxCollateralValue - params.debtValue

\* maxCollateralValue.minus(debtValue).minus(gasCost)
ExpectedProfit(params, gas) ==
    params.maxCollateralValue - params.debtValue - gas

\* The results of validate(); value is the figure the reason carries, or the
\* expected profit of a valid result
NoResult ==
    [isValid |-> FALSE, reason |-> "none", value |-> 0, symbol |-> "",
     need |-> NULL]
Invalid(reason, value) ==
    [isValid |-> FALSE, reason |-> reason, value |-> value, symbol |-> "",
     need |-> NULL]
Valid(profit) ==
    [isValid |-> TRUE, reason |-> "", value |-> profit, symbol |-> "",
     need |-> NULL]

\* `Insufficient ${symbol} balance: have ${walletBalance || '0'}, need
\* ${required}`
InsufficientBalance(check) ==
    [isValid |-> FALSE, reason |-> "Insufficient balance",
     value |-> IF check.walletBalance = NULL THEN 0 ELSE check.walletBalance,
     symbol |-> check.symbol, need |-> check.required]

\* The locals of validate() before a call
InitValidation ==
    /\ vpc = "idle"
    /\ liquidationEvent = NoEvent
    /\ positionData = NoPosition
    /\ readsFailed = FALSE
    /\ healthFactor = NULL
    /\ liquidationParams = NoParams
    /\ balanceCheck = NoBalanceCheck
    /\ gasCost = NULL
    /\ result = NoResult

\* new OpportunityValidator(provider) with the default environment, for the
\* specifications that never call validate(): its locals do not exist
InitValidatorIdle ==
    /\ walletAddress = NoWallet
    /\ enableWalletBalanceCheck = TRUE
    /\ minProfitThreshold = defaultMinProfitThreshold
    /\ vpc = "idle"
    /\ liquidationEvent = NULL
    /\ positionData = NULL
    /\ readsFailed = FALSE
    /\ healthFactor = NULL
    /\ liquidationParams = NULL
    /\ balanceCheck = NULL
    /\ gasCost = NULL
    /\ result = NULL

(***************************************************************************)
(* TransactionExecutor: building the transaction                           *)
(***************************************************************************)
\* A built transaction, or the error thrown while building it
Payload(data) == [payload |-> data, error |-> ""]
Thrown(message) == [payload |-> "none", error |-> message]

\* buildCompoundV3Transaction(): absorb(debtAsset, [borrower]); the encoder
\* rejects a missing address
BuildCompoundV3Transaction(debtOk) ==
    IF debtOk THEN Payload("absorb") ELSE Thrown("invalid address")

\* An Aave V3 builder that encodes without looking at the addresses
BuildAaveV3Unchecked(collateralOk, debtOk, debtValue) ==
    Payload("liquidationCall")

\* buildAaveV3Transaction(): both addresses are validated, then
\* liquidationCall(...) is encoded with debtValue.toString() as uint256, which
\* the encoder rejects when the amount has decimals
BuildAaveV3Transaction(collateralOk, debtOk, debtValue) ==
    IF ~collateralOk THEN Thrown("Invalid collateral asset address")
    ELSE IF ~debtOk THEN Thrown("Invalid debt asset address")
    ELSE IF debtValue % Scale # 0 THEN Thrown("invalid BigNumberish")
    ELSE Payload("liquidationCall")

\* buildLiquidationTransaction(): the switch over event.protocol
BuildLiquidationTransaction(protocol, collateralOk, debtOk, debtValue) ==
    CASE protocol = "compound-v3" -> BuildCompoundV3Transaction(debtOk)
      [] protocol = "aave-v3" ->
           BuildAaveV3Transaction(collateralOk, debtOk, debtValue)
      [] OTHER -> Thrown("Unsupported protocol")

(***************************************************************************)
(* PriceOracle: token table, sources and cache                             *)
(***************************************************************************)
Stablecoins == {"USDC", "USDbC", "DAI", "USD+"}
MappedTokens == Stablecoins \cup {"WETH", "cbETH", "AERO"}
Tokens == MappedTokens \cup {"other"}

\* An address as written: the token it names and whether its hex digits
\* include upper-case letters. The checksum form has them for every token
\* except WETH (0x4200000000000000000000000000000000000006).
ChecksumAddress(token) == [token |-> token, upper |-> token # "WETH"]
ToLowerCase(address) == [address EXCEPT !.upper = FALSE]
Addresses ==
    {ChecksumAddress(t) : t \in Tokens}
        \cup {ToLowerCase(ChecksumAddress(t)) : t \in Tokens}

\* this.tokenMappings[key]: the table's keys are the checksum addresses
NoInfo == [symbol |-> "undefined", isStablecoin |-> FALSE, coingeckoId |-> FALSE]
TokenMappings(key) ==
    IF key.token \in MappedTokens /\ key = ChecksumAddress(key.token)
    THEN [symbol |-> key.token, isStablecoin |-> key.token \in Stablecoins,
          coingeckoId |-> key.token \notin Stablecoins]
    ELSE NoInfo

\* getTokenPrice returns Big('1') at once for an unknown token and for a
\* stablecoin
NeverShortCircuit(info) == FALSE
ShortCircuit(info) == info = NoInfo \/ info.isStablecoin

\* null, and the outcome of a source whose request fails
NoPrice == -1
SourceError == -2
SourcePrices == {2400 * Scale, 2600 * Scale}
Outcomes == {SourceError, NoPrice, 0} \cup SourcePrices

\* this.cacheTimeout = 120000 ms, in minutes
cacheTimeout == 2
NoEntry == [price |-> NoPrice, timestamp |-> 0]

\* priceCache.get(tokenAddress), .delete(tokenAddress) and .set(tokenAddress,
\* {price, timestamp}); the cache holds its entries with their keys
PriceCacheGet(cache, token) ==
    IF \E e \in cache : e.token = token
    THEN LET e == CHOOSE e \in cache : e.token = token
         IN  [price |-> e.price, timestamp |-> e.timestamp]
    ELSE NoEntry
PriceCacheDelete(cache, token) == {e \in cache : e.token # token}
PriceCacheSet(cache, token, price, time) ==
    PriceCacheDelete(cache, token)
        \cup {[token |-> token, price |-> price, timestamp |-> time]}

\* getCachedPrice: an entry is stale when Date.now() - timestamp > cacheTimeout
CacheIsFreshStrict(age) == age < cacheTimeout
CacheIsFresh(age) == ~(age > cacheTimeout)
GetCachedPrice(entry, time) ==
    IF entry = NoEntry THEN NoPrice
    ELSE IF CacheIsFresh(time - entry.timestamp) THEN entry.price
    ELSE NoPrice

\* The sources: each catches its own errors and returns null
chainlinkFeeds == {"ETH", "USDC"}
GetChainlinkPrice(info, outcome) ==
    IF info.symbol \notin chainlinkFeeds \/ outcome = SourceError
    THEN NoPrice ELSE outcome
GetCoinGeckoPrice(info, outcome) ==
    IF ~info.coingeckoId \/ outcome \in {SourceError, 0}
    THEN NoPrice ELSE outcome
GetDexPrice(info, outcome) ==
    IF info.symbol \notin {"WETH", "cbETH"} \/ outcome = SourceError
    THEN NoPrice ELSE outcome
GetFallbackPrice(symbol) ==
    CASE symbol = "WETH" -> 2500 * Scale
      [] symbol = "cbETH" -> 2450 * Scale
      [] symbol = "AERO" -> 1500
      [] OTHER -> Scale
SourceOrder == <<"chainlink", "coingecko", "dex", "fallback">>

\* The getTokenPrice() call last made: what it was given, what it found in
\* the cache, which sources it called and what each returned
NoPriceCall ==
    [token |-> "none", returned |-> FALSE, price |-> NoPrice,
     cacheRead |-> FALSE, cacheWritten |-> FALSE, entry |-> NoEntry,
     age |-> 0, consulted |-> <<>>, yields |-> <<>>]

(***************************************************************************)
(* OpportunityValidator.getUserPosition: the position cache                *)
(***************************************************************************)
\* this.positionCacheTimeout = 30000 ms, in units of 15 s
positionCacheTimeout == 2

\* `position-${borrower}-${protocol}`
CacheKeyOfBorrower(debtor, protocol) == <<"position", debtor, "">>
CacheKey(debtor, protocol) == <<"position", debtor, protocol>>

\* The protocols getUserPosition reads, and one it does not know
FetchProtocols == {"aave-v3", "moonwell", "unknown"}

\* What a position read returns: null or a snapshot
Snapshots == {"null", "snapshot"}

\* this.cache.get(cacheKey): an entry holds the data and the timestamp; the
\* model also notes the call that stored it
NoCached ==
    [key |-> <<>>, data |-> "null", timestamp |-> 0,
     borrower |-> NoBorrower, protocol |-> "none"]
CacheGet(cache, key) ==
    IF \E e \in cache : e.key = key
    THEN CHOOSE e \in cache : e.key = key
    ELSE NoCached
CacheSet(cache, entry) == {e \in cache : e.key # entry.key} \cup {entry}

\* Date.now() - cached.timestamp < this.positionCacheTimeout
PositionIsFresh(age) == age < positionCacheTimeout

\* The getUserPosition() call last made
NoFetch ==
    [borrower |-> NoBorrower, protocol |-> "none", returned |-> FALSE,
     data |-> "null", queried |-> FALSE, entry |-> NoCached, age |-> 0]

(***************************************************************************)
(* OpportunityValidator: the balance cache and the bulk check              *)
(***************************************************************************)
\* this.balanceCacheTimeout = 15000 ms, in units of 15 s
balanceCacheTimeout == 1

BalanceAssets == {"USDC", "WETH"}
\* The wallet's balances on the chain (ETH: 0 and 0.5; a token: 0 and 1) and
\* the amounts required (0.5 and 1)
NativeBalances == {0, 500}
TokenBalances == {0, Scale}
TokenAmounts == {500, Scale}
\* positionData.debtAssets: one debt token, and two
DebtAssetLists ==
    {<<[asset |-> "USDC", amount |-> 5 * Scale]>>,
     <<[asset |-> "USDC", amount |-> 5 * Scale],
       [asset |-> "WETH", amount |-> 10 * Scale]>>}

\* cached && Date.now() - cached.timestamp < this.balanceCacheTimeout
FreshBalance(cache, asset, time) ==
    IF cache[asset] # NoBalanceEntry
          /\ time - cache[asset].timestamp < balanceCacheTimeout
    THEN cache[asset] ELSE NoBalanceEntry

\* checkWalletTokenBalance() against the cache: the result, and the cache
\* with the balance it read
CheckAndCache(address, cache, asset, amount, time, native, tokens, readOk) ==
    LET cached == FreshBalance(cache, asset, time)
        check == CheckWalletTokenBalance(address, asset, amount, cached,
                                         native, tokens[asset], readOk)
    IN  [check |-> check,
         cache |-> IF address # NoWallet /\ cached = NoBalanceEntry
                         /\ ~check.error
                   THEN [cache EXCEPT ![asset] = BalanceEntry(check, time)]
                   ELSE cache]

\* checkAllDebtTokenBalances(): the loop over the debt assets, each checked
\* for a tenth of its amount
RECURSIVE CheckEachDebtToken(_, _, _, _, _, _, _)
CheckEachDebtToken(address, cache, debtAssets, time, native, tokens, readOk) ==
    IF debtAssets = <<>> THEN [cache |-> cache, details |-> <<>>]
    ELSE LET debtAsset == Head(debtAssets)
             one == CheckAndCache(address, cache, debtAsset.asset,
                                  Times(debtAsset.amount, 100), time,
                                  native, tokens, readOk)
             rest == CheckEachDebtToken(address, one.cache, Tail(debtAssets),
                                        time, native, tokens, readOk)
         IN  [cache |-> rest.cache, details |-> <<one.check>> \o rest.details]

\* allBalancesOk: false without a wallet address, and as soon as one debt
\* token lacks the balance
AllBalancesOk(address, details) ==
    /\ address # NoWallet
    /\ \A i \in 1..Len(details) : details[i].hasBalance

\* No balance check made on its own yet
NoWalletCall ==
    [kind |-> "none", configured |-> FALSE, readOk |-> FALSE, native |-> 0,
     tokens |-> [a \in BalanceAssets |-> 0], details |-> <<>>,
     allBalancesOk |-> FALSE]

\* No executeLiquidation() call made on its own yet
NoExecution ==
    [protocol |-> "none", collateralOk |-> FALSE, debtOk |-> FALSE,
     debtValue |-> 0, built |-> FALSE, payload |-> "none", error |-> "",
     leasesBefore |-> {}]

\* A PriceOracle, a position cache and a balance cache as constructed
NewOracle ==
    [cache |-> {}, now |-> 0, pending |-> "none", call |-> NoPriceCall]
NewPositions ==
    [cache |-> {}, now |-> 0, pending |-> FALSE, fetch |-> NoFetch]
NewWallet ==
    [cache |-> [a \in BalanceAssets |-> NoBalanceEntry], now |-> 0,
     call |-> NoWalletCall]

\* A service that the specification at hand does not call
NotCalled == [called |-> FALSE]
Services(e, o, p, w, g) ==
    /\ execution = e
    /\ oracle = o
    /\ positions = p
    /\ wallet = w
    /\ gasOracle = g
InitServices == Services(NotCalled, NotCalled, NotCalled, NotCalled, NotCalled)

(***************************************************************************)
(* Initial states                                                          *)
(***************************************************************************)
InitListenerIdle ==
    /\ isListening = FALSE
    /\ monitoring = FALSE
    /\ contracts = {}
    /\ listeners = {}
    /\ established = {}
    /\ reconnectAttempts = 0
    /\ scheduled = 0
    /\ connecting = 0
    /\ failedRun = 0
    /\ fatal = FALSE
    /\ stopCalls = 0

InitNonceManager ==
    /\ currentNonce = NULL
    /\ pendingNonces = {}
    /\ stale = TRUE
    /\ issued = [v \in NonceValues |-> 0]
    /\ retired = {}
    /\ lastOp = <<"none">>

InitFlows ==
    /\ activeLiquidations = {}
    /\ pc = [f \in Flows |-> "idle"]
    /\ borrower = [f \in Flows |-> NoBorrower]
    /\ nonce = [f \in Flows |-> NULL]

\* The bot after initialize(): services constructed, handlers installed
InitBot ==
    /\ InitFlows
    /\ isRunning = TRUE
    /\ InitNonceManager
    /\ chainCount \in 0..MaxChain
    /\ InitListenerIdle
    /\ InitValidatorIdle

Init ==
    /\ InitBot
    /\ InitServices

Next ==
    \/ \E f \in Flows, d \in Debtors : OnOpportunity(f, d)
    \/ \E f \in Flows : ValidateDone(f)
    \/ \E f \in Flows : BuildDone(f)
    \/ \E f \in Flows : UpdateNonceSettle(f)
    \/ \E f \in Flows : GetNextNonceResume(f)
    \/ \E f \in Flows : SignDone(f)
    \/ \E f \in Flows : BroadcastDone(f)
    \/ \E f \in Flows : MonitorDone(f)
    \/ ChainAdvance(MaxChain)
    \/ IntervalElapses

Spec == Init /\ [][Next]_vars

(***************************************************************************)
(* The NonceManager called directly: getNextNonce, releaseNonce(n) and     *)
(* confirmNonce(n) in any order, with the periodic refresh                 *)
(***************************************************************************)
\* What confirmNonce(n) removes from the lease set, and n itself
Retires(pending, n) == {p \in (pending \ ConfirmNonce(pending, n)) \cup {n} : p # NULL}

\* getNextNonce is called: it suspends at the chain read when a refresh is
\* due, and otherwise returns at once
ApiGetNextNonce(c) ==
    /\ pc[c] = "idle"
    /\ Cardinality(pendingNonces) < MaxApiLeases
    /\ IF NeedsUpdate
       THEN /\ pc' = [pc EXCEPT ![c] = "updating"]
            /\ UNCHANGED <<pendingNonces, lastOp>>
       ELSE /\ pendingNonces' = GetNextNoncePending(TRUE)
            /\ lastOp' = <<"get", GetNextNonceValue(TRUE), pendingNonces, retired>>
            /\ UNCHANGED pc
    /\ UNCHANGED <<botVars, borrower, nonce, currentNonce, stale, chainCount,
                   issued, retired, listenerVars, validatorVars, serviceVars>>

\* getNextNonce resumes after `await this.updateNonce()` and returns
ApiGetNextNonceResume(c) ==
    /\ pc[c] \in {"updated", "updateFailed"}
    /\ LET readOk == pc[c] = "updated" IN
         /\ pendingNonces' = GetNextNoncePending(readOk)
         /\ lastOp' = <<"get", GetNextNonceValue(readOk), pendingNonces, retired>>
    /\ pc' = [pc EXCEPT ![c] = "idle"]
    /\ UNCHANGED <<botVars, borrower, nonce, currentNonce, stale, chainCount,
                   issued, retired, listenerVars, validatorVars, serviceVars>>

\* releaseNonce(n) for a leased n (a failed submission)
ApiReleaseNonce(n) ==
    /\ n \in pendingNonces
    /\ pendingNonces' = ReleaseNonce(pendingNonces, n, TRUE)
    /\ lastOp' = <<"release", n>>
    /\ UNCHANGED <<botVars, flowVars, currentNonce, stale, chainCount,
                   issued, retired, listenerVars, validatorVars, serviceVars>>

\* confirmNonce(n) for a leased n that the chain has consumed (n < chainCount)
ApiConfirmNonce(n) ==
    /\ n \in pendingNonces
    /\ n \in 0..(chainCount - 1)
    /\ pendingNonces' = ConfirmNonce(pendingNonces, n)
    /\ retired' = retired \cup Retires(pendingNonces, n)
    /\ lastOp' = <<"confirm", n, pendingNonces>>
    /\ UNCHANGED <<botVars, flowVars, currentNonce, stale, chainCount,
                   issued, listenerVars, validatorVars, serviceVars>>

InitNonce ==
    /\ activeLiquidations = {}
    /\ isRunning = TRUE
    /\ pc = [c \in Callers |-> "idle"]
    /\ borrower = [c \in Callers |-> NoBorrower]
    /\ nonce = [c \in Callers |-> NULL]
    /\ InitNonceManager
    /\ chainCount = 0
    /\ InitListenerIdle
    /\ InitValidatorIdle
    /\ InitServices

NextNonce ==
    \/ \E c \in Callers : ApiGetNextNonce(c)
    \/ \E c \in Callers : UpdateNonceSettle(c)
    \/ \E c \in Callers : ApiGetNextNonceResume(c)
    \/ \E n \in NonceValues : ApiReleaseNonce(n)
    \/ \E n \in NonceValues : ApiConfirmNonce(n)
    \/ ChainAdvance(MaxApiChain)
    \/ IntervalElapses

SpecNonce == InitNonce /\ [][NextNonce]_vars

\* The promises the flows are suspended on settle, and the refresh interval
\* passes: the event loop runs every continuation that is ready
Progress ==
    \/ \E f \in Flows : ValidateDone(f)
    \/ \E f \in Flows : BuildDone(f)
    \/ \E f \in Flows : UpdateNonceSettle(f)
    \/ \E f \in Flows : GetNextNonceResume(f)
    \/ \E f \in Flows : SignDone(f)
    \/ \E f \in Flows : BroadcastDone(f)
    \/ \E f \in Flows : MonitorDone(f)

FairSpec == Spec /\ WF_vars(Progress)

(***************************************************************************)
(* Claims                                                                  *)
(***************************************************************************)
\* C1: no debtor ever has two validation/execution flows in progress at the
\* same time, whatever events arrive while earlier flows are suspended
AtMostOneFlowPerDebtor ==
    \A f, g \in Flows :
        (f # g /\ InFlow(f) /\ InFlow(g)) => borrower[f] # borrower[g]

\* C2: with no release or confirm in between, no value is returned by
\* getNextNonce twice, whether the chain read succeeds or fails
ReturnedNoncesDistinct == \A v \in NonceValues : issued[v] <= 1

\* C2 witness: two flows hold leases at the same time, one of them handed
\* out after a failed chain read
TwoConcurrentLeases ==
    /\ \E f, g \in Flows :
         /\ f # g
         /\ pc[f] \in {"signing", "broadcasting"}
         /\ pc[g] \in {"signing", "broadcasting"}
         /\ nonce[f] = NULL
         /\ nonce[g] # NULL
    /\ Cardinality(pendingNonces) >= 2

\* C3: when executeLiquidation fails after leasing nonce n (signing or
\* broadcast fails), n is not in the lease set when the error has propagated
LeaseReleasedOnFailure ==
    [][\A f \in Flows :
         (pc[f] \in {"signing", "broadcasting"} /\ pc'[f] = "idle")
             => nonce[f] \notin pendingNonces']_vars

\* C4: getNextNonce never returns a number that is leased at the time of the
\* call's return, nor a number confirmNonce has retired
GetNextNonceReturnsUnused ==
    lastOp[1] = "get" => (lastOp[2] \notin lastOp[3] /\ lastOp[2] \notin lastOp[4])

\* C5: every lease is eventually removed from the lease set (released after a
\* failed submission, retired after the confirmation); checked under FairSpec
EveryLeaseEventuallyRemoved ==
    \A n \in NonceValues \ {NULL} : (n \in pendingNonces) ~> (n \notin pendingNonces)

\* C6: after confirmNonce(n) the lease set holds no number <= n and still
\* holds every number > n that was leased before the call
ConfirmRetiresUpTo ==
    lastOp[1] = "confirm" =>
        /\ \A p \in pendingNonces : ~(p # NULL /\ p <= lastOp[2])
        /\ \A p \in lastOp[3] : (p # NULL /\ p > lastOp[2]) => p \in pendingNonces

\* C6 witness: a confirmNonce(n) made with a lower and a higher number leased
ConfirmBetweenLeases ==
    /\ lastOp[1] = "confirm"
    /\ \E lo, hi \in lastOp[3] : lo # NULL /\ lo < lastOp[2] /\ hi > lastOp[2]

\* C7: when the refresh inside getNextNonce failed, the value returned is the
\* pending count the chain answers to a direct query
FallbackOnRefreshFailure ==
    [][\A f \in Flows :
         (pc[f] = "updateFailed" /\ pc'[f] = "signing")
             => nonce'[f] = chainCount]_vars

(***************************************************************************)
(* EventListener: subscriptions and reconnection; the bot's status         *)
(***************************************************************************)
\* this.maxReconnectAttempts
maxReconnectAttempts == 5

\* The keys start() puts in this.contracts: two Compound V3 markets, the
\* Aave V3 pool and four Moonwell markets
ContractNames ==
    {"compound-usdc", "compound-eth", "aave-pool",
     "moonwell-usdc", "moonwell-weth", "moonwell-cbeth", "moonwell-eurc"}

\* handleReconnection(): at the bound the fatal error is emitted and nothing
\* is scheduled; below it the counter is incremented and a timer is set
HandleReconnection(pendingTimers) ==
    IF reconnectAttempts >= maxReconnectAttempts
    THEN /\ fatal' = TRUE
         /\ scheduled' = pendingTimers
         /\ UNCHANGED reconnectAttempts
    ELSE /\ reconnectAttempts' = reconnectAttempts + 1
         /\ scheduled' = pendingTimers + 1
         /\ UNCHANGED fatal

\* resubscribeToEvents(): removeAllListeners() on every contract of the map;
\* the branches that would add the listeners again are empty
ResubscribeToEvents(subscribed) == subscribed \ contracts

\* A stop() whose loop removes nothing
RemoveNoListeners(subscribed) == subscribed

\* The loop of stop(): removeAllListeners() on every contract of the map
RemoveAllListeners(subscribed) == subscribed \ contracts

\* LiquidationBot.initialize() with EventListener.start(): the connection
\* monitoring is installed, then each contract is created, stored in the map
\* and subscribed inside its own try/catch. noContract are the contracts whose
\* construction throws, noListener those whose subscription fails. The
\* validator is constructed with walletAddress = null and initialize() makes
\* no call of setWalletAddress().
Initialize ==
    /\ ~monitoring
    /\ ~isRunning
    /\ \E noContract \in SUBSET ContractNames :
       \E noListener \in SUBSET (ContractNames \ noContract) :
         /\ Cardinality(noContract) + Cardinality(noListener) <= MaxContractFailures
         /\ contracts' = ContractNames \ noContract
         /\ listeners' = ContractNames \ (noContract \cup noListener)
         /\ established' = ContractNames \ (noContract \cup noListener)
    /\ monitoring' = TRUE
    /\ isListening' = TRUE
    /\ isRunning' = TRUE
    /\ walletAddress' = NoWallet
    /\ UNCHANGED <<activeLiquidations, flowVars, nonceVars, chainCount, histVars,
                   stopCalls, configVars, validationVars, serviceVars,
                   reconnectAttempts, scheduled, connecting, failedRun, fatal>>

\* wsProvider 'error' event: the error is re-emitted (the bot's handler logs it
\* and records it in the metrics), then handleReconnection()
WsError ==
    /\ monitoring
    /\ scheduled + connecting < MaxPending
    /\ HandleReconnection(scheduled)
    /\ UNCHANGED <<botVars, flowVars, nonceVars, chainCount, histVars, stopCalls, validatorVars, serviceVars, isListening,
                   monitoring, contracts, listeners, established, connecting, failedRun>>

\* The heartbeat's checkConnection(): getBlockNumber() rejects
ProbeFail ==
    /\ monitoring
    /\ scheduled + connecting < MaxPending
    /\ HandleReconnection(scheduled)
    /\ UNCHANGED <<botVars, flowVars, nonceVars, chainCount, histVars, stopCalls, validatorVars, serviceVars, isListening,
                   monitoring, contracts, listeners, established, connecting, failedRun>>

\* A reconnection timer fires after reconnectDelay: await wsProvider._start()
TimerFires ==
    /\ scheduled > 0
    /\ scheduled' = scheduled - 1
    /\ connecting' = connecting + 1
    /\ UNCHANGED <<botVars, flowVars, nonceVars, chainCount, histVars, stopCalls, validatorVars, serviceVars, isListening,
                   monitoring, contracts, listeners, established, reconnectAttempts,
                   failedRun, fatal>>

\* wsProvider._start() resolves: resubscribeToEvents(), reconnectAttempts = 0
AttemptSucceeds ==
    /\ connecting > 0
    /\ connecting' = connecting - 1
    /\ listeners' = ResubscribeToEvents(listeners)
    /\ reconnectAttempts' = 0
    /\ failedRun' = 0
    /\ UNCHANGED <<botVars, flowVars, nonceVars, chainCount, histVars, stopCalls, validatorVars, serviceVars, isListening,
                   monitoring, contracts, established, scheduled, fatal>>

\* wsProvider._start() rejects: the catch block calls handleReconnection()
AttemptFails ==
    /\ connecting > 0
    /\ connecting' = connecting - 1
    /\ failedRun' = failedRun + 1
    /\ HandleReconnection(scheduled)
    /\ UNCHANGED <<botVars, flowVars, nonceVars, chainCount, histVars, stopCalls, validatorVars, serviceVars, isListening,
                   monitoring, contracts, listeners, established>>

\* LiquidationBot.shutdown() with EventListener.stop(): listeners removed, the
\* contract map cleared. The heartbeat interval, the provider's error handler
\* and the reconnection timers are left in place.
Shutdown ==
    /\ isRunning
    /\ isRunning' = FALSE
    /\ isListening' = FALSE
    /\ listeners' = RemoveAllListeners(listeners)
    /\ contracts' = {}
    /\ established' = {}
    /\ UNCHANGED <<activeLiquidations, flowVars, nonceVars, chainCount, histVars, stopCalls, validatorVars, serviceVars,
                   monitoring, reconnectAttempts, scheduled, connecting, failedRun, fatal>>

\* EventListener.stop() called on its own: isListening = false,
\* removeAllListeners() on every contract of the map, then the map is cleared
Stop ==
    /\ stopCalls < MaxStops
    /\ stopCalls' = stopCalls + 1
    /\ isListening' = FALSE
    /\ listeners' = RemoveAllListeners(listeners)
    /\ contracts' = {}
    /\ established' = {}
    /\ UNCHANGED <<botVars, flowVars, nonceVars, chainCount, histVars, validatorVars, serviceVars,
                   monitoring,
                   reconnectAttempts, scheduled, connecting, failedRun, fatal>>

\* The bot constructed and not yet initialized
InitListener ==
    /\ InitFlows
    /\ isRunning = FALSE
    /\ InitNonceManager
    /\ chainCount = 0
    /\ InitListenerIdle
    /\ InitValidatorIdle
    /\ InitServices

NextListener ==
    \/ Initialize
    \/ WsError
    \/ ProbeFail
    \/ TimerFires
    \/ AttemptSucceeds
    \/ AttemptFails
    \/ Shutdown
    \/ Stop

SpecListener == InitListener /\ [][NextListener]_vars

\* C8: the fatal error is first emitted after exactly maxReconnectAttempts
\* consecutive failed attempts, and once it has been emitted no reconnection
\* attempt is scheduled any more
FatalAfterExactlyMaxFailures ==
    [][/\ (~fatal /\ fatal') => failedRun' = maxReconnectAttempts
       /\ fatal => scheduled' <= scheduled]_vars

\* C9: a successful reconnection leaves every subscription that start() had
\* established in place again, and the attempt counter at zero
ResubscribedAfterReconnect ==
    [][(connecting' < connecting /\ failedRun' = 0)
          => (listeners' = established /\ reconnectAttempts' = 0)]_vars

\* C10: once the fatal max-reconnect error has been emitted, getStatus()
\* reports isRunning = false
FatalStopsRunning == fatal => ~isRunning

\* C11: start() completes with isListening = true only when every initial
\* subscription has been established; otherwise it rejects and isListening
\* stays false
StartFailsWithoutSubscriptions ==
    [][(~monitoring /\ monitoring' /\ established' # ContractNames)
          => ~isListening']_vars

\* C12: a stop() leaves no contract subscription and isListening false, and a
\* stop() made in the state an earlier stop() left changes nothing
StopIsIdempotent ==
    [][stopCalls' > stopCalls =>
         /\ listeners' = {} /\ contracts' = {} /\ ~isListening'
         /\ (listeners = {} /\ contracts = {} /\ ~isListening)
               => /\ UNCHANGED <<isListening, monitoring, contracts, listeners>>
                  /\ UNCHANGED <<reconnectAttempts, scheduled, connecting, fatal>>]_vars

\* C12 witness: stop() has been called twice on a listener that start() had
\* subscribed
StoppedTwice == stopCalls = 2 /\ monitoring /\ listeners = {} /\ ~isListening

\* C13: while a flow for a debtor is in progress, a further event for that
\* debtor starts no other flow and leaves the debtor's entry in the active set
DuplicateEventDropped ==
    [][\A f \in Flows :
         (InFlow(f) /\ InFlow(f)' /\ borrower[f] \in activeLiquidations)
             => /\ borrower[f] \in activeLiquidations'
                /\ \A g \in Flows \ {f} :
                      (pc[g] = "idle" /\ pc'[g] = "validating")
                          => borrower'[g] # borrower[f]]_vars

\* C14: the active set holds exactly the debtors of the flows in progress,
\* and its size, which getStatus() reports, is the number of those flows
ActiveSetIsFlowsInProgress ==
    /\ activeLiquidations = {borrower[f] : f \in {g \in Flows : InFlow(g)}}
    /\ Cardinality(activeLiquidations) = Cardinality({f \in Flows : InFlow(f)})

(***************************************************************************)
(* OpportunityValidator.validate(), one call at a time                     *)
(***************************************************************************)
\* validate() returns: the caller has the result, the locals are gone
EndValidation(r) ==
    /\ vpc' = "done"
    /\ result' = r

\* validate(event) up to its first await: the preliminary check
ValidateStart(event) ==
    /\ vpc = "idle"
    /\ liquidationEvent' = event
    /\ IF IsPreliminaryValid(event)
       THEN vpc' = "position" /\ UNCHANGED result
       ELSE EndValidation(Invalid("Failed preliminary validation", 0))
    /\ UNCHANGED <<botVars, flowVars, nonceVars, chainCount, histVars, listenerVars, serviceVars,
                   walletAddress, configVars, positionData, readsFailed,
                   healthFactor, liquidationParams, balanceCheck, gasCost>>

\* getUserPosition() has answered: the health factor gate, the liquidation
\* parameters and the choice of the balance check. The fallback over
\* positionData.debtAssets would need a debt asset without address: with
\* debtAssets not empty, liquidationParams.debtAsset is its first address.
PositionFetched(position, allFailed) ==
    /\ vpc = "position"
    /\ position \in IF allFailed
                    THEN {PositionWithoutChain(liquidationEvent.protocol)}
                    ELSE Positions(liquidationEvent.protocol) \cup {NoPosition}
    /\ positionData' = position
    /\ readsFailed' = allFailed
    /\ IF position = NoPosition
       THEN /\ EndValidation(Invalid("Could not fetch position data", 0))
            /\ UNCHANGED <<healthFactor, liquidationParams>>
       ELSE /\ healthFactor' = CalculateHealthFactor(position)
            /\ IF HealthFactorTooHigh(healthFactor')
               THEN /\ EndValidation(Invalid("Health factor too high", healthFactor'))
                    /\ UNCHANGED liquidationParams
               ELSE /\ liquidationParams' = CalculateLiquidationParams(position)
                    /\ LET debtAssetAddress ==
                             IF liquidationEvent.debtAsset # NoAsset
                             THEN liquidationEvent.debtAsset
                             ELSE liquidationParams'.debtAsset
                       IN  vpc' = IF ~enableWalletBalanceCheck THEN "gas"
                                  ELSE IF debtAssetAddress # NoAsset THEN "balance"
                                  ELSE "gas"
                    /\ UNCHANGED result
    /\ UNCHANGED <<botVars, flowVars, nonceVars, chainCount, histVars, listenerVars, serviceVars,
                   walletAddress, configVars, liquidationEvent, balanceCheck, gasCost>>

\* checkWalletTokenBalance(debtAssetAddress, debtAmount) has answered
BalanceChecked(cached, native, token, readOk) ==
    /\ vpc = "balance"
    /\ LET debtAssetAddress ==
             IF liquidationEvent.debtAsset # NoAsset
             THEN liquidationEvent.debtAsset
             ELSE liquidationParams.debtAsset
       IN  /\ CachedFor(debtAssetAddress, cached)
           /\ balanceCheck' = CheckWalletTokenBalance(walletAddress,
                                  debtAssetAddress, liquidationParams.debtValue,
                                  cached, native, token, readOk)
    /\ IF ~balanceCheck'.hasBalance
       THEN EndValidation(IF balanceCheck'.error
                          THEN Invalid("Wallet balance check failed", 0)
                          ELSE InsufficientBalance(balanceCheck'))
       ELSE vpc' = "gas" /\ UNCHANGED result
    /\ UNCHANGED <<botVars, flowVars, nonceVars, chainCount, histVars, listenerVars, serviceVars,
                   walletAddress, configVars, liquidationEvent, positionData,
                   readsFailed, healthFactor, liquidationParams, gasCost>>

\* estimateGasCost() has answered: the expected profit and its gate
GasEstimated(feeOk, gwei) ==
    /\ vpc = "gas"
    /\ gasCost' = EstimateGasCost(feeOk, gwei)
    /\ LET expectedProfit == ExpectedProfit(liquidationParams, gasCost')
       IN  IF expectedProfit < minProfitThreshold
           THEN EndValidation(Invalid("Insufficient profit", expectedProfit))
           ELSE EndValidation(Valid(expectedProfit))
    /\ UNCHANGED <<botVars, flowVars, nonceVars, chainCount, histVars, listenerVars, serviceVars,
                   walletAddress, configVars, liquidationEvent, positionData,
                   readsFailed, healthFactor, liquidationParams, balanceCheck>>

\* The caller has taken the result; the next validate() starts afresh
ValidateReturn ==
    /\ vpc = "done"
    /\ vpc' = "idle"
    /\ liquidationEvent' = NoEvent
    /\ positionData' = NoPosition
    /\ readsFailed' = FALSE
    /\ healthFactor' = NULL
    /\ liquidationParams' = NoParams
    /\ balanceCheck' = NoBalanceCheck
    /\ gasCost' = NULL
    /\ result' = NoResult
    /\ UNCHANGED <<botVars, flowVars, nonceVars, chainCount, histVars, listenerVars, serviceVars,
                   walletAddress, configVars>>

\* setWalletAddress(wallet.address), as the balance-validation script calls it
SetWalletAddress ==
    /\ vpc = "idle"
    /\ walletAddress = NoWallet
    /\ walletAddress' = SignerAddress
    /\ UNCHANGED <<botVars, flowVars, nonceVars, chainCount, histVars, listenerVars,
                   configVars, validationVars, serviceVars>>

\* A validator constructed under any environment
NewValidator ==
    /\ InitFlows
    /\ isRunning = FALSE
    /\ InitNonceManager
    /\ chainCount = 0
    /\ InitListenerIdle
    /\ walletAddress = NoWallet
    /\ enableWalletBalanceCheck \in BOOLEAN
    /\ minProfitThreshold \in MinProfitThresholds
    /\ InitValidation

InitValidator ==
    /\ NewValidator
    /\ InitServices

NextValidator ==
    \/ \E event \in LiquidationEvents : ValidateStart(event)
    \/ \E position \in AllPositions, allFailed \in BOOLEAN :
          PositionFetched(position, allFailed)
    \/ \E cached \in CachedBalances \cup {NoBalanceEntry},
          native \in WalletBalances, token \in WalletBalances,
          readOk \in BOOLEAN :
            BalanceChecked(cached, native, token, readOk)
    \/ \E feeOk \in BOOLEAN, gwei \in GasPrices : GasEstimated(feeOk, gwei)
    \/ ValidateReturn
    \/ SetWalletAddress

SpecValidator == InitValidator /\ [][NextValidator]_vars

(***************************************************************************)
(* TransactionExecutor.executeLiquidation for one validated opportunity,   *)
(* with the opportunity's protocol and liquidation parameters explicit     *)
(***************************************************************************)
Protocols == {"compound-v3", "aave-v3", "moonwell"}

\* debtValue of the liquidation parameters: half of a debt of 900 and of 945
DebtValues == {450 * Scale, 472500}

\* executeLiquidation(event, validation, gasPrice) is called and suspends in
\* buildLiquidationTransaction
ExecStart(f, protocol, collateralOk, debtOk, debtValue) ==
    /\ pc[f] = "idle"
    /\ activeLiquidations' = activeLiquidations \cup {"d1"}
    /\ borrower' = [borrower EXCEPT ![f] = "d1"]
    /\ pc' = [pc EXCEPT ![f] = "building"]
    /\ execution' = [protocol |-> protocol, collateralOk |-> collateralOk,
                     debtOk |-> debtOk, debtValue |-> debtValue,
                     built |-> FALSE, payload |-> "none", error |-> "",
                     leasesBefore |-> pendingNonces]
    /\ UNCHANGED <<isRunning, nonce, nonceVars, chainCount, histVars,
                   listenerVars, validatorVars, oracle, positions, wallet, gasOracle>>

\* buildLiquidationTransaction settles: a throw reaches the catch block
\* (releaseNonce() with no argument, rethrow); otherwise getNextNonce is
\* entered and runs to its first suspension point
ExecBuild(f) ==
    /\ pc[f] = "building"
    /\ ~execution.built
    /\ LET tx == BuildLiquidationTransaction(execution.protocol,
                     execution.collateralOk, execution.debtOk,
                     execution.debtValue) IN
         /\ execution' = [execution EXCEPT !.built = TRUE,
                                           !.payload = tx.payload,
                                           !.error = tx.error]
         /\ IF tx.error # ""
            THEN /\ EndFlow(f)
                 /\ pendingNonces' =
                        ReleaseNonce(pendingNonces, nonce[f], FALSE)
                 /\ UNCHANGED <<currentNonce, stale, issued>>
            ELSE /\ Cardinality(pendingNonces) < MaxLeases
                 /\ IF NeedsUpdate
                    THEN /\ pc' = [pc EXCEPT ![f] = "updating"]
                         /\ UNCHANGED <<nonce, pendingNonces, issued>>
                    ELSE /\ pc' = [pc EXCEPT ![f] = "signing"]
                         /\ nonce' = [nonce EXCEPT ![f] =
                                          GetNextNonceValue(TRUE)]
                         /\ pendingNonces' = GetNextNoncePending(TRUE)
                         /\ issued' = Bump(GetNextNonceValue(TRUE))
                 /\ UNCHANGED <<activeLiquidations, borrower, currentNonce,
                                stale>>
    /\ UNCHANGED <<isRunning, chainCount, retired, lastOp, listenerVars,
                   validatorVars, oracle, positions, wallet, gasOracle>>

NextExecutor ==
    \/ \E protocol \in Protocols, collateralOk \in BOOLEAN,
          debtOk \in BOOLEAN, debtValue \in DebtValues :
            ExecStart(1, protocol, collateralOk, debtOk, debtValue)
    \/ ExecBuild(1)
    \/ UpdateNonceSettle(1)
    \/ GetNextNonceResume(1)
    \/ SignDone(1)
    \/ BroadcastDone(1)
    \/ MonitorDone(1)
    \/ ChainAdvance(MaxApiChain)
    \/ IntervalElapses

InitExecutor ==
    /\ InitBot
    /\ Services(NoExecution, NotCalled, NotCalled, NotCalled, NotCalled)

SpecExecutor == InitExecutor /\ [][NextExecutor]_vars

(***************************************************************************)
(* PriceOracle.getTokenPrice, one call at a time, and the clock            *)
(***************************************************************************)
coreVars == <<botVars, flowVars, nonceVars, chainCount, histVars,
              listenerVars, validatorVars>>

\* getTokenPrice(tokenAddress) up to its return or its first await
GetTokenPrice(address) ==
    /\ oracle.pending = "none"
    /\ LET key == ToLowerCase(address)
           info == TokenMappings(key)
           entry == PriceCacheGet(oracle.cache, key.token)
           age == oracle.now - entry.timestamp
           cached == GetCachedPrice(entry, oracle.now)
           call == [NoPriceCall EXCEPT !.token = address.token] IN
         IF ShortCircuit(info)
         THEN oracle' = [oracle EXCEPT !.call =
                            [call EXCEPT !.returned = TRUE, !.price = Scale]]
         ELSE IF cached # NoPrice
         THEN oracle' = [oracle EXCEPT !.call =
                            [call EXCEPT !.returned = TRUE, !.price = cached,
                                         !.cacheRead = TRUE, !.entry = entry,
                                         !.age = age]]
         ELSE oracle' = [oracle EXCEPT
                            !.cache = PriceCacheDelete(@, key.token),
                                       !.pending = key.token,
                                       !.call =
                            [call EXCEPT !.cacheRead = TRUE, !.entry = entry,
                                         !.age = age]]
    /\ UNCHANGED <<coreVars, execution, positions, wallet, gasOracle>>

\* The sources settle one after the other until one returns a price; that
\* price is cached. With none, the fallback price is returned and not cached.
PriceFetched(chainlink, coingecko, dex) ==
    /\ oracle.pending # "none"
    /\ LET key == [token |-> oracle.pending, upper |-> FALSE]
           info == TokenMappings(key)
           prices == <<GetChainlinkPrice(info, chainlink),
                       GetCoinGeckoPrice(info, coingecko),
                       GetDexPrice(info, dex),
                       GetFallbackPrice(info.symbol)>>
           n == CHOOSE i \in 1..4 :
                    /\ prices[i] # NoPrice
                    /\ \A j \in 1..(i - 1) : prices[j] = NoPrice IN
         oracle' = [oracle EXCEPT
             !.cache =
                 IF n < 4
                 THEN PriceCacheSet(@, key.token, prices[n], oracle.now)
                 ELSE @,
             !.pending = "none",
             !.call = [@ EXCEPT !.returned = TRUE, !.price = prices[n],
                                !.cacheWritten = n < 4,
                                !.consulted = SubSeq(SourceOrder, 1, n),
                                !.yields = SubSeq(prices, 1, n)]]
    /\ UNCHANGED <<coreVars, execution, positions, wallet, gasOracle>>

\* A minute passes
Tick ==
    /\ oracle.now < MaxNow
    /\ oracle' = [oracle EXCEPT !.now = @ + 1]
    /\ UNCHANGED <<coreVars, execution, positions, wallet, gasOracle>>

NextOracle ==
    \/ \E address \in Addresses : GetTokenPrice(address)
    \/ \E chainlink \in Outcomes, coingecko \in Outcomes, dex \in Outcomes :
          PriceFetched(chainlink, coingecko, dex)
    \/ Tick

InitOracle ==
    /\ InitBot
    /\ Services(NotCalled, NewOracle, NotCalled, NotCalled, NotCalled)

SpecOracle == InitOracle /\ [][NextOracle]_vars

(***************************************************************************)
(* getUserPosition, one call at a time, and the clock                      *)
(***************************************************************************)
\* getUserPosition(borrower, protocol) up to its return or its await
GetUserPosition(debtor, protocol) ==
    /\ ~positions.pending
    /\ LET cached == CacheGet(positions.cache, CacheKey(debtor, protocol))
           age == positions.now - cached.timestamp
           fetch == [NoFetch EXCEPT !.borrower = debtor,
                                    !.protocol = protocol,
                                    !.entry = cached, !.age = age] IN
         IF cached # NoCached /\ PositionIsFresh(age)
         THEN positions' = [positions EXCEPT !.fetch =
                  [fetch EXCEPT !.returned = TRUE, !.data = cached.data]]
         ELSE IF protocol \in {"aave-v3", "moonwell"}
         THEN positions' = [positions EXCEPT !.pending = TRUE,
                  !.fetch = [fetch EXCEPT !.queried = TRUE]]
         ELSE positions' = [positions EXCEPT !.fetch =
                  [fetch EXCEPT !.returned = TRUE]]
    /\ UNCHANGED <<coreVars, execution, oracle, wallet, gasOracle>>

\* The protocol's reader settles (null when it failed); the result is cached
PositionRead(data) ==
    /\ positions.pending
    /\ LET fetch == positions.fetch IN
         positions' = [positions EXCEPT
             !.cache = CacheSet(@,
                 [key |-> CacheKey(fetch.borrower, fetch.protocol),
                  data |-> data, timestamp |-> positions.now,
                  borrower |-> fetch.borrower, protocol |-> fetch.protocol]),
             !.pending = FALSE,
             !.fetch = [@ EXCEPT !.returned = TRUE, !.data = data]]
    /\ UNCHANGED <<coreVars, execution, oracle, wallet, gasOracle>>

\* Fifteen seconds pass
PositionTick ==
    /\ positions.now < MaxNow
    /\ positions' = [positions EXCEPT !.now = @ + 1]
    /\ UNCHANGED <<coreVars, execution, oracle, wallet, gasOracle>>

NextPositions ==
    \/ \E debtor \in Debtors, protocol \in FetchProtocols :
          GetUserPosition(debtor, protocol)
    \/ \E data \in Snapshots : PositionRead(data)
    \/ PositionTick

InitPositions ==
    /\ InitBot
    /\ Services(NotCalled, NotCalled, NewPositions, NotCalled, NotCalled)

SpecPositions == InitPositions /\ [][NextPositions]_vars

(***************************************************************************)
(* checkWalletTokenBalance and checkAllDebtTokenBalances called on their   *)
(* own, with the wallet's balances on the chain as inputs, and the clock   *)
(***************************************************************************)
\* checkWalletTokenBalance(debtAssetAddress, debtAmount)
ApiCheckBalance(asset, amount, native, tokens, readOk) ==
    /\ vpc = "idle"
    /\ LET one == CheckAndCache(walletAddress, wallet.cache, asset, amount,
                                wallet.now, native, tokens, readOk) IN
         wallet' = [wallet EXCEPT
             !.cache = one.cache,
             !.call = [kind |-> "one", configured |-> walletAddress # NoWallet,
                       readOk |-> readOk, native |-> native,
                       tokens |-> tokens, details |-> <<one.check>>,
                       allBalancesOk |-> one.check.hasBalance]]
    /\ UNCHANGED <<coreVars, execution, oracle, positions, gasOracle>>

\* checkAllDebtTokenBalances(debtAssets)
ApiCheckAllBalances(debtAssets, native, tokens, readOk) ==
    /\ vpc = "idle"
    /\ LET all == CheckEachDebtToken(walletAddress, wallet.cache, debtAssets,
                                     wallet.now, native, tokens, readOk)
           details == IF walletAddress = NoWallet THEN <<>> ELSE all.details
       IN
         wallet' = [wallet EXCEPT
             !.cache = all.cache,
             !.call = [kind |-> "all", configured |-> walletAddress # NoWallet,
                       readOk |-> readOk, native |-> native,
                       tokens |-> tokens, details |-> details,
                       allBalancesOk |-> AllBalancesOk(walletAddress, details)]]
    /\ UNCHANGED <<coreVars, execution, oracle, positions, gasOracle>>

\* Fifteen seconds pass for the balance cache
BalanceTick ==
    /\ wallet.now < MaxNow
    /\ wallet' = [wallet EXCEPT !.now = @ + 1]
    /\ UNCHANGED <<coreVars, execution, oracle, positions, gasOracle>>

NextBalance ==
    \/ \E asset \in BalanceAssets, amount \in TokenAmounts,
          native \in NativeBalances, token \in TokenBalances,
          readOk \in BOOLEAN :
            ApiCheckBalance(asset, amount, native,
                            [a \in BalanceAssets |->
                                IF a = asset THEN token ELSE 0], readOk)
    \/ \E debtAssets \in DebtAssetLists, native \in NativeBalances,
          tokens \in [BalanceAssets -> TokenBalances], readOk \in BOOLEAN :
            ApiCheckAllBalances(debtAssets, native, tokens, readOk)
    \/ SetWalletAddress
    \/ BalanceTick

\* A validator constructed with the balance check enabled and the default
\* threshold
InitBalance ==
    /\ NewValidator
    /\ enableWalletBalanceCheck
    /\ minProfitThreshold = defaultMinProfitThreshold
    /\ Services(NotCalled, NotCalled, NotCalled, NewWallet, NotCalled)

SpecBalance == InitBalance /\ [][NextBalance]_vars

(***************************************************************************)
(* GasOracle (src/services/GasOracle.js). Fees are counted in gwei; the    *)
(* fee data are multiples of 5 gwei, so that the 20% boost is exact.       *)
(***************************************************************************)
\* this.maxGasPrice: MAX_GAS_PRICE_GWEI, 50 when not configured
maxGasPrice == 50
\* "Keep only last 100 readings"
maxReadings == 100
\* gasHistory.slice(-10), and slice(-20, -10) before it
recentReadings == 10
\* Math.floor(multiplier * 100), multiplier = 1.2
multiplierPercent == 120

\* What provider.getFeeData() answers: a legacy price, an EIP-1559 triple,
\* or no price at all
FeeData(gasPrice, maxFeePerGas, maxPriorityFeePerGas) ==
    [gasPrice |-> gasPrice, maxFeePerGas |-> maxFeePerGas,
     maxPriorityFeePerGas |-> maxPriorityFeePerGas]
NoFeeData == FeeData(NULL, NULL, NULL)
FeeDatas ==
    {FeeData(10, NULL, NULL), FeeData(20, NULL, NULL), FeeData(60, NULL, NULL),
     FeeData(45, 45, 45), NoFeeData}

\* feeData.gasPrice || feeData.maxFeePerGas
GasPriceOf(feeData) ==
    IF feeData.gasPrice # NULL THEN feeData.gasPrice ELSE feeData.maxFeePerGas

\* this.currentGasPrice: null, or the reading with its timestamp
NoQuote ==
    [gasPrice |-> NULL, maxFeePerGas |-> NULL, maxPriorityFeePerGas |-> NULL,
     timestamp |-> NULL]
Quote(feeData, now) ==
    [gasPrice |-> GasPriceOf(feeData), maxFeePerGas |-> feeData.maxFeePerGas,
     maxPriorityFeePerGas |-> feeData.maxPriorityFeePerGas, timestamp |-> now]

\* A history that is never trimmed
PushUnbounded(history, quote) == Append(history, quote)

\* gasHistory.push(...), then shift() beyond 100 readings
PushReading(history, quote) ==
    LET pushed == Append(history, quote) IN
      IF Len(pushed) > maxReadings THEN Tail(pushed) ELSE pushed

\* What getOptimalGasPrice() returned, with what isNetworkCongested() told it
NoGasCall ==
    [made |-> FALSE, threw |-> FALSE, congested |-> FALSE, gasPrice |-> NULL,
     maxFeePerGas |-> NULL, maxPriorityFeePerGas |-> NULL]

\* The try block of updateGasPrice with a price: the quote is replaced and
\* appended to the history
StoreQuote(g, feeData) ==
    [g EXCEPT !.currentGasPrice = Quote(feeData, g.now + 1),
              !.gasHistory = PushReading(@, Quote(feeData, g.now + 1)),
              !.now = @ + 1,
              !.update = "stored",
              !.call = NoGasCall]

\* An update that forgets the quote when the fee query fails
UpdateGasPriceForgetting(g, feeData, rejected) ==
    IF rejected \/ GasPriceOf(feeData) = NULL
    THEN [g EXCEPT !.currentGasPrice = NoQuote, !.update = "failed",
                   !.call = NoGasCall]
    ELSE StoreQuote(g, feeData)

\* updateGasPrice(): getFeeData() rejects (caught and logged), answers
\* without a price (early return), or answers with one
UpdateGasPrice(g, feeData, rejected) ==
    IF rejected \/ GasPriceOf(feeData) = NULL
    THEN [g EXCEPT !.update = "failed", !.call = NoGasCall]
    ELSE StoreQuote(g, feeData)

RECURSIVE SumGasPrice(_)
\* reduce((sum, item) => sum + Number(item.gasPrice), 0)
SumGasPrice(readings) ==
    IF readings = <<>> THEN 0
    ELSE Head(readings).gasPrice + SumGasPrice(Tail(readings))

\* slice(-10) and slice(-20, -10) of the history
Recent(history) ==
    SubSeq(history, Max(1, Len(history) - recentReadings + 1), Len(history))
Older(history) ==
    SubSeq(history, Max(1, Len(history) - 2 * recentReadings + 1),
           Len(history) - recentReadings)

\* A congestion test that leaves the factor 1.5 out
IsNetworkCongestedAnyRise(history) ==
    IF Len(history) < recentReadings \/ Len(Older(history)) = 0 THEN FALSE
    ELSE SumGasPrice(Recent(history)) * Len(Older(history))
            > SumGasPrice(Older(history)) * Len(Recent(history))

\* isNetworkCongested(): recentAvg > olderAvg * 1.5, the averages written
\* as sums over lengths
IsNetworkCongested(history) ==
    IF Len(history) < recentReadings \/ Len(Older(history)) = 0 THEN FALSE
    ELSE 2 * SumGasPrice(Recent(history)) * Len(Older(history))
            > 3 * SumGasPrice(Older(history)) * Len(Recent(history))

\* value * BigInt(Math.floor(multiplier * 100)) / BigInt(100)
Boosted(fee) == (fee * multiplierPercent) \div 100

\* The return value of getOptimalGasPrice() for a quote: a fee pair for
\* EIP-1559 fee data, a single price otherwise
OptimalGasPrice(current, congested) ==
    IF congested
    THEN IF current.maxFeePerGas # NULL
         THEN [NoGasCall EXCEPT
                 !.made = TRUE, !.congested = TRUE,
                 !.maxFeePerGas = Min(Boosted(current.maxFeePerGas), maxGasPrice),
                 !.maxPriorityFeePerGas = Boosted(current.maxPriorityFeePerGas)]
         ELSE [NoGasCall EXCEPT
                 !.made = TRUE, !.congested = TRUE,
                 !.gasPrice = Min(Boosted(current.gasPrice), maxGasPrice)]
    ELSE IF current.maxFeePerGas # NULL
         THEN [NoGasCall EXCEPT
                 !.made = TRUE,
                 !.maxFeePerGas = current.maxFeePerGas,
                 !.maxPriorityFeePerGas = current.maxPriorityFeePerGas]
         ELSE [NoGasCall EXCEPT !.made = TRUE, !.gasPrice = current.gasPrice]

\* A GasOracle as constructed, with the fee data the provider has
NewGasOracle(feeData) ==
    [isRunning |-> FALSE, intervalId |-> FALSE, currentGasPrice |-> NoQuote,
     gasHistory |-> <<>>, now |-> 0, last |-> MaxSamples, feed |-> feeData,
     changes |-> 0, update |-> "none", call |-> NoGasCall]

\* A GasOracle that was started and has read the same fee data n times
WarmGasOracle(feeData, n) ==
    [NewGasOracle(feeData) EXCEPT
        !.isRunning = TRUE, !.intervalId = TRUE,
        !.currentGasPrice = Quote(feeData, n),
        !.gasHistory = [i \in 1..n |-> Quote(feeData, i)],
        !.now = n, !.last = n + MaxSamples, !.update = "stored"]

gasFrame == <<coreVars, execution, oracle, positions, wallet>>

\* start(): the first reading, then the timer
GasStart(rejected) ==
    /\ ~gasOracle.isRunning
    /\ gasOracle.now < gasOracle.last
    /\ gasOracle' = [UpdateGasPrice(gasOracle, gasOracle.feed, rejected)
                        EXCEPT !.intervalId = TRUE, !.isRunning = TRUE]
    /\ UNCHANGED gasFrame

\* The callback of setInterval: updateGasPrice(), its rejection logged
GasTimer(rejected) ==
    /\ gasOracle.intervalId
    /\ gasOracle.now < gasOracle.last
    /\ gasOracle' = UpdateGasPrice(gasOracle, gasOracle.feed, rejected)
    /\ UNCHANGED gasFrame

\* getOptimalGasPrice(): a reading first when there is no quote; reading
\* a field of null throws
GetOptimalGasPrice(rejected) ==
    /\ LET g == IF gasOracle.currentGasPrice = NoQuote
                THEN UpdateGasPrice(gasOracle, gasOracle.feed, rejected)
                ELSE gasOracle IN
         gasOracle' =
            IF g.currentGasPrice = NoQuote
            THEN [g EXCEPT !.call = [NoGasCall EXCEPT !.made = TRUE,
                                                      !.threw = TRUE]]
            ELSE [g EXCEPT !.update = IF g = gasOracle THEN "none" ELSE @,
                           !.call =
                     OptimalGasPrice(g.currentGasPrice,
                                     IsNetworkCongested(g.gasHistory))]
    /\ UNCHANGED gasFrame

\* The network's fees move
FeeDataChanges(feeData) ==
    /\ gasOracle.changes < MaxFeeChanges
    /\ feeData # gasOracle.feed
    /\ gasOracle' = [gasOracle EXCEPT !.feed = feeData, !.changes = @ + 1]
    /\ UNCHANGED gasFrame

NextGas ==
    \/ \E rejected \in BOOLEAN : GasStart(rejected)
    \/ \E rejected \in BOOLEAN : GasTimer(rejected)
    \/ \E rejected \in BOOLEAN : GetOptimalGasPrice(rejected)
    \/ \E feeData \in FeeDatas : FeeDataChanges(feeData)

InitGas ==
    /\ InitBot
    /\ chainCount = 0
    /\ \E feeData \in FeeDatas :
          \/ Services(NotCalled, NotCalled, NotCalled, NotCalled,
                      NewGasOracle(feeData))
          \/ /\ feeData # NoFeeData
             /\ Services(NotCalled, NotCalled, NotCalled, NotCalled,
                         WarmGasOracle(feeData, Warmup))

SpecGas == InitGas /\ [][NextGas]_vars

ValidatorHasSignerAddress == isRunning => walletAddress = SignerAddress

\* C17: a health factor of 1 or more ends the validation with an invalid
\* result whose reason carries the health factor, before any balance check,
\* gas estimate or profit computation
HealthFactorGateRejects ==
    (healthFactor # NULL /\ healthFactor >= Scale) =>
        /\ vpc = "done"
        /\ ~result.isValid
        /\ result.reason = "Health factor too high"
        /\ result.value = healthFactor
        /\ balanceCheck = NoBalanceCheck
        /\ gasCost = NULL

\* C17 witness: a position without debt, whose health factor is the
\* sentinel, has been rejected
SentinelRejected ==
    /\ vpc = "done"
    /\ positionData.debtValue = 0
    /\ healthFactor = Sentinel
    /\ result.reason = "Health factor too high"

\* C18: for a position with debt the health factor of the gate is
\* collateral value x liquidation threshold / debt value, except for
\* Aave V3, whose reported health factor is taken
HealthFactorIsThresholdFormula ==
    (healthFactor # NULL /\ positionData.debtValue > 0) =>
        IF positionData.protocol = "aave-v3"
        THEN healthFactor = positionData.healthFactor
        ELSE healthFactor =
                 Div(Times(positionData.collateralValue,
                           positionData.liquidationThreshold),
                     positionData.debtValue)

\* C19: the parameters hold half of the debt value as debtValue and
\* debtValue x (1 + bonus) as maxCollateralValue; a debt of 900 with the
\* bonus 0.05 gives 450 and 472.5
LiquidationParamsFormula ==
    liquidationParams # NoParams =>
        /\ 2 * liquidationParams.debtValue = positionData.debtValue
        /\ Scale * liquidationParams.maxCollateralValue =
               liquidationParams.debtValue * (Scale + liquidationParams.liquidationBonus)
        /\ positionData.debtValue = 900 * Scale =>
               /\ liquidationParams.liquidationBonus = 50
               /\ liquidationParams.debtValue = 450 * Scale
               /\ liquidationParams.maxCollateralValue = 472500

\* C19 witness: the parameters of a position with a debt of 900
ParamsForDebt900 ==
    liquidationParams # NoParams /\ positionData.debtValue = 900 * Scale

\* C20: a valid result carries expectedProfit = maxCollateralValue -
\* debtValue - gasCost and that is at least the threshold; a profit below the
\* threshold gives an invalid result whose reason carries the profit
ProfitGate ==
    /\ result.isValid => (vpc = "done" /\ gasCost # NULL)
    /\ (vpc = "done" /\ gasCost # NULL) =>
          LET profit == liquidationParams.maxCollateralValue
                            - liquidationParams.debtValue - gasCost
          IN  /\ result.value = profit
              /\ result.isValid <=> profit >= minProfitThreshold
              /\ ~result.isValid => result.reason = "Insufficient profit"

\* C20 witness: a valid result whose profit, gas cost deducted, is exactly
\* the threshold
ValidAtThreshold ==
    /\ vpc = "done"
    /\ result.isValid
    /\ gasCost > 0
    /\ result.value = minProfitThreshold

\* C21: when every chain read of the position fetch fails, the fetch returns
\* null and validate returns isValid=false with 'Could not fetch position
\* data'
FailedFetchIsRejectedAsNull ==
    (vpc = "done" /\ readsFailed) =>
        /\ positionData = NoPosition
        /\ result = Invalid("Could not fetch position data", 0)

\* C22: whichever of the three protocol tags a validated opportunity carries,
\* building its transaction yields a payload (never an error), so that it can
\* be signed and broadcast.
EveryProtocolBuildsPayload ==
    (execution.built /\ execution.collateralOk /\ execution.debtOk) =>
        /\ execution.payload # "none"
        /\ execution.error = ""

\* C23: an Aave V3 opportunity whose collateral or debt asset is missing or
\* invalid fails with the error naming that asset before anything is
\* encoded and before a nonce is leased, signed or broadcast: the lease set
\* is the one executeLiquidation was entered with.
InvalidAaveAssetFailsBeforeNonce ==
    (execution.protocol = "aave-v3"
        /\ ~(execution.collateralOk /\ execution.debtOk)) =>
        /\ pc[1] \in {"building", "idle"}
        /\ pendingNonces = execution.leasesBefore
        /\ execution.payload = "none"
        /\ execution.built =>
              /\ pc[1] = "idle"
              /\ execution.error =
                    IF ~execution.collateralOk
                    THEN "Invalid collateral asset address"
                    ELSE "Invalid debt asset address"

\* An Aave V3 execution with an invalid debt asset has failed while leases
\* of earlier executions were held
InvalidDebtAssetFailed ==
    /\ execution.built
    /\ execution.protocol = "aave-v3"
    /\ execution.collateralOk /\ ~execution.debtOk
    /\ execution.error = "Invalid debt asset address"
    /\ execution.leasesBefore # {}
    /\ pc[1] = "idle"

\* C24: a getTokenPrice call that finds a cached price of a non-stablecoin
\* token not older than the TTL (120 s) returns that very price, calls no
\* source and leaves the entry in place; one that finds an older entry
\* discards it and goes to the sources.
CachedPriceRoundTrip ==
    LET call == oracle.call IN
    call.entry # NoEntry =>
        IF call.age <= cacheTimeout
        THEN /\ call.returned
             /\ call.price = call.entry.price
             /\ call.consulted = <<>>
             /\ PriceCacheGet(oracle.cache, call.token) = call.entry
        ELSE IF call.returned
        THEN /\ call.consulted # <<>>
             /\ PriceCacheGet(oracle.cache, call.token) # call.entry
        ELSE /\ oracle.pending = call.token
             /\ PriceCacheGet(oracle.cache, call.token) = NoEntry

\* A price cached exactly 120 s ago has been returned from the cache
CachedPriceReadAtTTL ==
    /\ oracle.call.token = "WETH"
    /\ oracle.call.entry # NoEntry
    /\ oracle.call.age = cacheTimeout
    /\ oracle.call.returned
    /\ oracle.call.price = oracle.call.entry.price

\* C25: getTokenPrice for a stablecoin of the token table returns exactly 1
\* at once, whatever the cache holds, without reading or writing the cache
\* and without calling a source.
StablecoinPriceIsOne ==
    oracle.call.token \in Stablecoins =>
        /\ oracle.call.returned
        /\ oracle.call.price = Scale
        /\ ~oracle.call.cacheRead
        /\ ~oracle.call.cacheWritten
        /\ oracle.call.consulted = <<>>
        /\ oracle.pending = "none"

\* A stablecoin has been priced while the cache held a price
StablecoinPricedWithCache ==
    /\ oracle.call.token = "DAI"
    /\ oracle.call.returned
    /\ PriceCacheGet(oracle.cache, "WETH") # NoEntry

\* C26: a getTokenPrice call for a non-stablecoin token of the token table
\* that is not served from the cache calls the sources in the order
\* chainlink, coingecko, dex, fallback, stops at the first one that returns a
\* price and returns that price; every source called before it returned no
\* price, and no source's error reaches the caller.
SourcesInOrder ==
    LET call == oracle.call
        n == Len(call.consulted) IN
    (call.returned /\ call.token \in MappedTokens \ Stablecoins
        /\ ~(call.entry # NoEntry /\ call.age <= cacheTimeout)) =>
        /\ n >= 1
        /\ call.consulted = SubSeq(SourceOrder, 1, n)
        /\ call.price = call.yields[n]
        /\ call.price \notin {NoPrice, SourceError}
        /\ \A i \in 1..(n - 1) : call.yields[i] = NoPrice

\* C27: a position fetch that finds an entry younger than the position TTL
\* (30 s) returns the cached snapshot without a chain query; the entry a
\* fetch finds was stored by a fetch for the same debtor and the same
\* protocol; a fetch that finds an entry older than the TTL queries the
\* chain.
PositionCachedPerDebtorAndProtocol ==
    LET fetch == positions.fetch IN
    fetch.entry # NoCached =>
        /\ fetch.entry.borrower = fetch.borrower
        /\ fetch.entry.protocol = fetch.protocol
        /\ fetch.age < positionCacheTimeout =>
              /\ fetch.returned
              /\ ~fetch.queried
              /\ fetch.data = fetch.entry.data
        /\ fetch.age > positionCacheTimeout => fetch.queried

\* A fetch was served from the cache while the cache held another snapshot
\* for the same debtor on another protocol
PositionServedFromCache ==
    /\ positions.fetch.entry # NoCached
    /\ positions.fetch.age = positionCacheTimeout - 1
    /\ positions.fetch.returned /\ ~positions.fetch.queried
    /\ positions.fetch.data = "snapshot"
    /\ \E e \in positions.cache :
          /\ e.borrower = positions.fetch.borrower
          /\ e.protocol # positions.fetch.protocol
          /\ e.data = "null"

\* C29: when the balance check reports less than the required amount, validate
\* rejects with the reason 'Insufficient <symbol> balance: have <available>,
\* need <required>' that names the token and carries the balance found and
\* the amount required.
InsufficientBalanceReason ==
    (vpc = "done" /\ balanceCheck # NoBalanceCheck
        /\ ~balanceCheck.hasBalance /\ ~balanceCheck.error) =>
        /\ ~result.isValid
        /\ result.reason = "Insufficient balance"
        /\ result.symbol \in {"USDC", "WETH", "ETH"}
        /\ result.value # NULL /\ result.value = balanceCheck.walletBalance
        /\ result.need = liquidationParams.debtValue
        /\ result.value < result.need

\* C28: a check of WETH made with a wallet address and without a read error,
\* whose reported balance is the wallet's balance of that kind on the chain,
\* reports a sufficient native-kind result carrying the ETH balance when that
\* balance covers the amount, and otherwise reports the WETH token balance
\* and whether it covers the amount.
NativeFirstThenWrapped ==
    LET call == wallet.call
        check == call.details[1] IN
    (call.kind = "one" /\ call.configured /\ ~check.error
        /\ check.symbol \in {"WETH", "ETH"}
        /\ check.walletBalance = IF check.balanceType = "native"
                                 THEN call.native
                                 ELSE call.tokens["WETH"]) =>
        IF call.native >= check.required
        THEN /\ check.hasBalance
             /\ check.balanceType = "native"
             /\ check.walletBalance = call.native
        ELSE /\ check.balanceType = "token"
             /\ check.walletBalance = call.tokens["WETH"]
             /\ check.hasBalance = (call.tokens["WETH"] >= check.required)

\* C30: a bulk check made with a wallet address passes when the wallet holds
\* the amount checked for (a tenth of the debt) of at least one of the
\* position's debt tokens.
BulkCheckPassesWithOneToken ==
    LET call == wallet.call IN
    (call.kind = "all" /\ call.configured /\ call.readOk
        /\ \E i \in 1..Len(call.details) :
              LET check == call.details[i] IN
              \/ call.tokens[IF check.symbol = "ETH" THEN "WETH"
                             ELSE check.symbol] >= check.required
              \/ check.symbol \in {"WETH", "ETH"}
                    /\ call.native >= check.required) =>
        call.allBalancesOk

\* C31: with 20 readings or more, a getOptimalGasPrice() call finds the
\* network congested exactly when the mean gas price of the last 10 readings
\* is more than 1.5 times the mean of the 10 before them; it then returns
\* the current fee times 1.2, at most the ceiling, and the current fee
\* as it is otherwise
CongestionBoostsFee ==
    LET h == gasOracle.gasHistory
        n == Len(h)
        call == gasOracle.call
        current == gasOracle.currentGasPrice
        fee == IF current.maxFeePerGas # NULL THEN current.maxFeePerGas
               ELSE current.gasPrice
        returned == IF call.maxFeePerGas # NULL THEN call.maxFeePerGas
                    ELSE call.gasPrice
        exceeded == 2 * SumGasPrice(SubSeq(h, n - 9, n))
                       > 3 * SumGasPrice(SubSeq(h, n - 19, n - 10)) IN
      (call.made /\ ~call.threw /\ n >= 20) =>
          IF exceeded
          THEN call.congested /\ returned = Min((fee * 12) \div 10, maxGasPrice)
          ELSE ~call.congested /\ returned = fee

\* C31, its case: a call on a congested network whose boosted fee met the
\* ceiling
CongestedFeeCapped ==
    /\ gasOracle.call.made
    /\ gasOracle.call.congested
    /\ Len(gasOracle.gasHistory) >= 20
    /\ gasOracle.call.maxFeePerGas = maxGasPrice
    /\ gasOracle.currentGasPrice.maxFeePerGas < maxGasPrice

\* C32: every fee that getOptimalGasPrice() returns, the legacy price or
\* maxFeePerGas, congested or not, is at most the configured ceiling
RecommendedFeeWithinCeiling ==
    LET call == gasOracle.call IN
      (call.made /\ ~call.threw) =>
          /\ call.gasPrice # NULL => call.gasPrice <= maxGasPrice
          /\ call.maxFeePerGas # NULL => call.maxFeePerGas <= maxGasPrice

\* C33: the gas history never holds more than 100 readings and is in
\* chronological order; a reading is appended at the end, and at 100
\* readings the oldest one, and only that one, is dropped for it
HistoryIsBoundedRing ==
    /\ [](/\ Len(gasOracle.gasHistory) <= 100
          /\ \A i \in 1..(Len(gasOracle.gasHistory) - 1) :
                gasOracle.gasHistory[i].timestamp
                    < gasOracle.gasHistory[i + 1].timestamp)
    /\ [][gasOracle'.gasHistory # gasOracle.gasHistory =>
            gasOracle'.gasHistory =
                Append(IF Len(gasOracle.gasHistory) = 100
                       THEN Tail(gasOracle.gasHistory)
                       ELSE gasOracle.gasHistory,
                       gasOracle'.currentGasPrice)]_vars

\* C33, its case: a full history whose first readings have been dropped
OldestReadingEvicted ==
    /\ Len(gasOracle.gasHistory) = 100
    /\ gasOracle.gasHistory[1].timestamp > 1

\* C34: a reading that fails changes neither the current quote nor the
\* history, and the timer of a started oracle stays armed for the next cycle
FailedReadingKeepsQuote ==
    [][(gasOracle'.update = "failed" /\ gasOracle' # gasOracle) =>
          /\ gasOracle'.currentGasPrice = gasOracle.currentGasPrice
          /\ gasOracle'.gasHistory = gasOracle.gasHistory
          /\ gasOracle.intervalId => gasOracle'.intervalId
          /\ gasOracle'.isRunning => gasOracle'.intervalId]_vars

\* C34, its case: a failed reading of a running oracle that has a quote,
\* served by the next call
LastKnownGoodServed ==
    /\ gasOracle.update = "failed"
    /\ gasOracle.intervalId
    /\ gasOracle.currentGasPrice # NoQuote
    /\ Len(gasOracle.gasHistory) > 0

\* C40: an EIP-1559 fee pair returned by getOptimalGasPrice() has
\* maxPriorityFeePerGas <= maxFeePerGas whenever the quote it was computed
\* from had
PriorityFeeWithinMaxFee ==
    LET call == gasOracle.call
        current == gasOracle.currentGasPrice IN
      (/\ call.made /\ ~call.threw
       /\ call.maxFeePerGas # NULL
       /\ current.maxPriorityFeePerGas <= current.maxFeePerGas) =>
          call.maxPriorityFeePerGas <= call.maxFeePerGas

\* C35: at most one reconnection attempt is pending, as a timer or as a
\* connection in progress, and an error event or a failed probe that arrives
\* while one is pending neither sets another timer nor uses up an attempt
AtMostOneReconnectionPending ==
    [][/\ scheduled' + connecting' <= 1
       /\ (scheduled + connecting > 0 /\ connecting' = connecting
             /\ scheduled' >= scheduled)
             => /\ scheduled' = scheduled
                /\ reconnectAttempts' = reconnectAttempts]_vars

\* C36: once stop() has returned on a started listener, no reconnection is
\* counted, scheduled, started or completed, no subscription comes back and
\* no error is emitted
StoppedListenerIsQuiet ==
    [][(monitoring /\ ~isListening) =>
          UNCHANGED <<reconnectAttempts, scheduled, connecting, failedRun,
                      fatal, listeners, established>>]_vars

\* C37: the position cache never holds the null of a failed fetch, and a
\* getUserPosition() call for a pair whose last fetch failed queries the
\* chain again
FailedFetchIsNotCached ==
    /\ \A e \in positions.cache : e.data # "null"
    /\ (positions.fetch.entry # NoCached
          /\ positions.fetch.entry.data = "null") => positions.fetch.queried

\* C38: a checkWalletTokenBalance() call answered from a fresh balance cache
\* entry, with the wallet's balances as they were at the call before and the
\* entry holding the wallet's balance of its kind, reports the sufficiency
\* that the same call reports without the cache
CachedBalanceIsTransparent ==
    [][LET before == wallet.call
           after == wallet'.call
           check == after.details[1]
           asset == IF check.symbol = "ETH" THEN "WETH" ELSE check.symbol
           entry == FreshBalance(wallet.cache, asset, wallet.now) IN
         (/\ wallet'.now = wallet.now
          /\ after.kind = "one" /\ after.configured /\ after.readOk
          /\ entry # NoBalanceEntry
          /\ after.native = before.native /\ after.tokens = before.tokens
          /\ entry.walletBalance = IF entry.balanceType = "native"
                                   THEN after.native ELSE after.tokens[asset])
            => check.hasBalance =
                  CheckWalletTokenBalance(walletAddress, asset, check.required,
                                          NoBalanceEntry, after.native,
                                          after.tokens[asset], TRUE).hasBalance]_vars

\* C39: getTokenPrice() finds the table entry of every registered token in
\* whatever letter case its address is written, and prices it as that
\* symbol: a stablecoin at 1, WETH, cbETH and AERO from the cache or the
\* sources; only an address that is not registered gets the default of 1
RegisteredTokenIsFound ==
    LET call == oracle.call IN
      call.returned =>
          /\ call.token \in MappedTokens =>
                \A address \in Addresses :
                    address.token = call.token =>
                        TokenMappings(ToLowerCase(address)).symbol = call.token
          /\ call.token \in Stablecoins => call.price = Scale
          /\ call.token \in MappedTokens \ Stablecoins => call.cacheRead
          /\ call.token \notin MappedTokens =>
                (call.price = Scale /\ ~call.cacheRead)

====
